---------------------------- MODULE Spec2Model ----------------------------
(***************************************************************************)
(* Container resource manager (crm): the resource state machine, the       *)
(* node-info pool accounting, the role loop, the tracers and the           *)
(* per-resource lock table of                                              *)
(*   src/backend/booster/server/pkg/resource/crm/manager.go                *)
(***************************************************************************)
EXTENDS Integers, Sequences, FiniteSets, Bags, TLC

(***************************************************************************)
(* Bounds of the model                                                     *)
(***************************************************************************)
\* instances one instance-filter call may grant
MaxGrant == 1
\* largest requestInstance a Scale may reach
MaxRequest == 2
\* compensating releases waiting for a snapshot at one time
MaxPending == 1
\* getServiceInfo calls of users in flight at one time
MaxCalls == 1
\* tracer goroutines alive at one time
MaxTracers == 1
\* instances the operator reports per block
Capacity == 1
\* lock objects lockResource may create in one run
MaxLocks == 2
\* failures the store and the operator may answer in one run
MaxFaults == 1
\* characters of a user name and of a caller's resource id
MaxLen == 2

ResourceIDs == {"r1", "b1"}
\* goroutines that lock and unlock resources
Goroutines == {"g1", "g2"}
BlockKeys == {"k1"}
\* blocks matching condition {city, platform} of a launch
LaunchKeys == {"k1"}
\* blocks matching condition {city} of a scale
ScaleKeys == {"k1"}

VARIABLES
    confOperator,   \* rm.conf.Operator
    running,        \* rm.running
    runPc,          \* position of the Run goroutine inside start()
    loops,          \* background loops of the master term are spawned and not cancelled
    registered,     \* rm.registeredResourceMap
    store,          \* the mysql resource table
    pool,           \* rm.nodeInfoPool, per block key
    pending,        \* releaseNoReadyInstance goroutines waiting for a snapshot
    gsi,            \* getServiceInfo executions between their steps
    tracers,        \* trace goroutines waiting in their select
    faults,         \* failures the store and the operator have answered so far
    lockMap,        \* rm.resourceLockMap: resourceID -> lock object
    locks,          \* lock objects ever created: mutex state, expiry
    gor,            \* goroutines going through lockResource / unlockResource
    timers,         \* the time.Timer of runAppDetailSync and of runRscDetailSync
    details,        \* rm.appDetail and rm.rscDetail
    hwu             \* a handlerWithUser rewriting a resource id

mgrVars == <<confOperator, running, runPc, loops, registered, store, pool, pending, gsi, tracers,
            faults>>
lockVars == <<lockMap, locks, gor>>
detailVars == <<timers, details>>
vars == <<confOperator, running, runPc, loops, registered, store, pool, pending, gsi, tracers, faults,
          lockMap, locks, gor, timers, details, hwu>>

Min(a, b) == IF a < b THEN a ELSE b

(***************************************************************************)
(* Resource rows                                                           *)
(***************************************************************************)
\* a slot of the map or the table that holds no row
NoRes ==
    [status |-> "absent", requestInstance |-> 0, noReadyInstance |-> 0,
     resourceBlockKey |-> "", brokerResourceID |-> "", brokerName |-> "",
     brokerSold |-> FALSE]

\* param.BrokerName the caller passes to Init for each id
ParamBrokerName(id) == IF id = "b1" THEN "bk" ELSE ""

\* the row rm.init builds
NewResource(id) == [NoRes EXCEPT !.status = "init", !.brokerName = ParamBrokerName(id)]

\* resource2Table followed by table2Resource: every stored column
table2Resource(r) ==
    [status |-> r.status, requestInstance |-> r.requestInstance,
     noReadyInstance |-> r.noReadyInstance, resourceBlockKey |-> r.resourceBlockKey,
     brokerResourceID |-> r.brokerResourceID, brokerName |-> r.brokerName,
     brokerSold |-> r.brokerSold]

(***************************************************************************)
(* Node-info pool (operator package): total, free, noReady per block       *)
(***************************************************************************)
EmptyBlock == [total |-> 0, free |-> 0, noReady |-> 0]

\* op.NewNodeInfoPool
NewNodeInfoPool == [k \in BlockKeys |-> EmptyBlock]

\* RecoverNoReadyBlock(key, n)
RecoverNoReadyBlock(p, key, n) ==
    IF key \in BlockKeys THEN [p EXCEPT ![key].noReady = @ + n] ELSE p

\* the reservation GetFreeInstances makes once the filter granted g
ReserveInstances(p, key, g) ==
    [p EXCEPT ![key].free = @ - g, ![key].noReady = @ + g]

\* ReleaseNoReadyInstance(key, n)
ReleaseNoReadyInstance(p, key, n) ==
    IF key \in BlockKeys
    THEN [p EXCEPT ![key].noReady = @ - n, ![key].free = @ + n]
    ELSE p

\* UpdateResources(snapshot): totals from the operator, reservations kept
UpdateResources(p) ==
    [k \in BlockKeys |->
        [total |-> Capacity, free |-> Capacity - p[k].noReady, noReady |-> p[k].noReady]]

\* what an instance filter may grant out of `free` available instances
Grants(free) == 0 .. Min(free, MaxGrant)


(***************************************************************************)
(* The state an operation works on, and what it did so far.  The locked    *)
(* body of launch, scale and release runs between lockResource and the     *)
(* deferred unlockResource of one resourceID.                              *)
(***************************************************************************)
Cur ==
    [reg |-> registered, st |-> store, pool |-> pool, pend |-> pending,
     spawn |-> <<>>, calls |-> <<>>, writes |-> <<>>, err |-> "nil", faults |-> faults]

Fail(s, e) == [s EXCEPT !.err = e]

\* the store or the operator answers with an error
Fault(s, e) == [s EXCEPT !.err = e, !.faults = @ + 1]

OperatorCall(s, f, name, n) ==
    [s EXCEPT !.calls = Append(@, [f |-> f, name |-> name, instance |-> n])]

\* releaseNoReadyInstance applying the release without waiting for a snapshot
releaseUngated(s, key, instance) ==
    IF instance <= 0 \/ key = ""
    THEN s
    ELSE [s EXCEPT !.pend = @ (+) SetToBag({[key |-> key, instance |-> instance,
                                            armed |-> TRUE]})]

\* go rm.releaseNoReadyInstance(key, instance): the goroutine waits for a
\* snapshot taken after now; one for 0 instances never changes the Pool
releaseNoReadyInstance(s, key, instance) ==
    IF instance <= 0 \/ key = ""
    THEN s
    ELSE [s EXCEPT !.pend = @ (+) SetToBag({[key |-> key, instance |-> instance,
                                            armed |-> FALSE]})]

\* saveResources without the delete of a released row
saveKeepReleased(s, id, r, putOk) ==
    LET s1 == [s EXCEPT !.reg[id] = r, !.writes = Append(@, id)]
    IN  IF putOk THEN [s1 EXCEPT !.st[id] = table2Resource(r)]
        ELSE Fault(s1, "StoreError")

\* rm.saveResources: the map is written first, then the table
saveResources(s, id, r, putOk) ==
    LET s1 == [s EXCEPT !.reg[id] = IF r.status = "released" THEN NoRes ELSE r,
                        !.writes = Append(@, id)]
    IN  IF putOk THEN [s1 EXCEPT !.st[id] = table2Resource(r)]
        ELSE Fault(s1, "StoreError")

\* freshDeployingStatus turning every terminated service to running
freshAnyStatus(s, id, ready, terminated, putOk) ==
    LET r == s.reg[id]
        r1 == [r EXCEPT !.noReadyInstance = IF terminated THEN 0 ELSE @,
                        !.status = IF terminated THEN "running" ELSE @]
    IN  IF r.status = "absent" THEN s
        ELSE [saveResources(s, id, r1, putOk) EXCEPT !.err = "nil"]

\* freshDeployingStatus taking requestInstance - ready as it comes
freshNoCompare(s, id, ready, terminated, putOk) ==
    LET r == s.reg[id]
        currentNoReady == r.requestInstance - ready
        r1 == [r EXCEPT !.noReadyInstance =
                            IF terminated THEN 0
                            ELSE IF currentNoReady >= 0 THEN currentNoReady ELSE @,
                        !.status =
                            IF terminated /\ r.status = "deploying" THEN "running" ELSE @]
    IN  IF r.status = "absent" THEN s
        ELSE [saveResources(s, id, r1, putOk) EXCEPT !.err = "nil"]

\* freshDeployingStatus leaving noReadyInstance as it is on a terminated service
freshKeepNoReady(s, id, ready, terminated, putOk) ==
    LET r == s.reg[id]
        r1 == [r EXCEPT !.status =
                            IF terminated /\ r.status = "deploying" THEN "running" ELSE @]
    IN  IF r.status = "absent" THEN s
        ELSE [saveResources(s, id, r1, putOk) EXCEPT !.err = "nil"]

\* rm.freshDeployingStatus, between its lockResource and unlockResource
freshDeployingStatus(s, id, ready, terminated, putOk) ==
    LET r == s.reg[id]
        currentNoReady == r.requestInstance - ready
        lower == ~terminated /\ r.noReadyInstance > currentNoReady /\ currentNoReady >= 0
        s1 == IF terminated
              THEN releaseNoReadyInstance(s, r.resourceBlockKey, r.noReadyInstance)
              ELSE IF lower
              THEN releaseNoReadyInstance(s, r.resourceBlockKey,
                                          r.noReadyInstance - currentNoReady)
              ELSE s
        r1 == [r EXCEPT !.noReadyInstance =
                            IF terminated THEN 0
                            ELSE IF lower THEN currentNoReady ELSE @,
                        !.status =
                            IF terminated /\ r.status = "deploying" THEN "running" ELSE @]
    IN  IF r.status = "absent" THEN s
        ELSE [saveResources(s1, id, r1, putOk) EXCEPT !.err = "nil"]

\* brokerSet.Apply: the unsold broker resources a request may take over
BrokerCandidates(s, id) ==
    {b \in ResourceIDs \ {id} :
        /\ s.reg[b].brokerName # ""
        /\ ~s.reg[b].brokerSold
        /\ s.reg[b].status \in {"deploying", "running"}}

\* brokerSet.Apply granted broker resource b: it is marked sold
BrokerApply(s, b) ==
    [s EXCEPT !.reg[b].brokerSold = TRUE, !.st[b].brokerSold = TRUE]

\* rm.launch from saving the deploying row on (manager.go 830-847) and the
\* deferred function: go rm.trace.  For a broker-backed resource the deferred
\* function makes the tracer's first isFinishDeploying itself, at once
launchSave(s, id, r, hasBroker, e) ==
    LET r1 == [r EXCEPT !.status = "deploying"]
        s1 == saveResources(s, id, r1, e.put)
    IN  IF s1.err # "nil"
        THEN releaseNoReadyInstance(s1, r1.resourceBlockKey, r1.noReadyInstance)
        ELSE [s1 EXCEPT !.spawn = Append(@, id)]

\* launchLocked writing the row it worked on back when LaunchServer fails
launchKeepDirty(s, id, useBroker, e) ==
    LET r0 == s.reg[id]
        s2 == [s EXCEPT !.pool = ReserveInstances(@, e.key, e.grant)]
        r2 == [r0 EXCEPT !.noReadyInstance = e.grant, !.resourceBlockKey = e.key]
        s3 == OperatorCall(s2, "LaunchServer", id, e.grant)
    IN  IF r0.status = "absent" THEN Fail(s, "ResourceNoExist")
        ELSE IF r0.status # "init" THEN Fail(s, "ApplicationAlreadyLaunched")
        ELSE IF e.grant < 0 THEN Fail(s, "NoEnoughResources")
        ELSE IF ~e.op
        THEN Fault(releaseNoReadyInstance([s3 EXCEPT !.reg[id] = r2],
                                          r2.resourceBlockKey, r2.noReadyInstance),
                   "OperatorError")
        ELSE launchSave(s3, id, [r2 EXCEPT !.requestInstance = e.grant], FALSE, e)

\* launchLocked saving the row without requestInstance
launchNoRequest(s, id, useBroker, e) ==
    LET r0 == s.reg[id]
        s2 == [s EXCEPT !.pool = ReserveInstances(@, e.key, e.grant)]
        r2 == [r0 EXCEPT !.noReadyInstance = e.grant, !.resourceBlockKey = e.key]
        s3 == OperatorCall(s2, "LaunchServer", id, e.grant)
    IN  IF r0.status = "absent" THEN Fail(s, "ResourceNoExist")
        ELSE IF r0.status # "init" THEN Fail(s, "ApplicationAlreadyLaunched")
        ELSE IF e.grant < 0 THEN Fail(s, "NoEnoughResources")
        ELSE IF ~e.op
        THEN Fault(releaseNoReadyInstance(s3, r2.resourceBlockKey, r2.noReadyInstance),
                   "OperatorError")
        ELSE launchSave(s3, id, r2, FALSE, e)

\* launchLocked leaving the reservation in the Pool when LaunchServer fails
launchNoCompensation(s, id, useBroker, e) ==
    LET r0 == s.reg[id]
        s2 == [s EXCEPT !.pool = ReserveInstances(@, e.key, e.grant)]
        r2 == [r0 EXCEPT !.noReadyInstance = e.grant, !.resourceBlockKey = e.key]
        s3 == OperatorCall(s2, "LaunchServer", id, e.grant)
    IN  IF r0.status = "absent" THEN Fail(s, "ResourceNoExist")
        ELSE IF r0.status # "init" THEN Fail(s, "ApplicationAlreadyLaunched")
        ELSE IF e.grant < 0 THEN Fail(s, "NoEnoughResources")
        ELSE IF ~e.op THEN Fault(s3, "OperatorError")
        ELSE launchSave(s3, id, [r2 EXCEPT !.requestInstance = e.grant], FALSE, e)

\* launchLocked asking the Pool also when a broker resource was applied
launchBothBackings(s, id, useBroker, e) ==
    LET r0 == s.reg[id]
        hasBroker == useBroker /\ e.apply # ""
        s1 == IF hasBroker THEN BrokerApply(s, e.apply) ELSE s
        r1 == IF hasBroker THEN [r0 EXCEPT !.brokerResourceID = e.apply] ELSE r0
        s2 == [s1 EXCEPT !.pool = ReserveInstances(@, e.key, e.grant)]
        r2 == [r1 EXCEPT !.noReadyInstance = e.grant, !.resourceBlockKey = e.key]
        s3 == OperatorCall(s2, "LaunchServer", id, e.grant)
    IN  IF r0.status = "absent" THEN Fail(s, "ResourceNoExist")
        ELSE IF r0.status # "init" THEN Fail(s, "ApplicationAlreadyLaunched")
        ELSE IF e.grant < 0 THEN Fail(s1, "NoEnoughResources")
        ELSE IF ~e.op
        THEN Fault(releaseNoReadyInstance(s3, r2.resourceBlockKey, r2.noReadyInstance),
                   "OperatorError")
        ELSE launchSave(s3, id, [r2 EXCEPT !.requestInstance = e.grant], hasBroker, e)

\* launchLocked asking the operator for one instance more than the Pool granted
launchOneMore(s, id, useBroker, e) ==
    LET r0 == s.reg[id]
        hasBroker == useBroker /\ e.apply # ""
        s1 == IF hasBroker THEN BrokerApply(s, e.apply) ELSE s
        r1 == IF hasBroker THEN [r0 EXCEPT !.brokerResourceID = e.apply] ELSE r0
        s2 == [s1 EXCEPT !.pool = ReserveInstances(@, e.key, e.grant)]
        r2 == [r1 EXCEPT !.noReadyInstance = e.grant, !.resourceBlockKey = e.key]
        s3 == OperatorCall(s2, "LaunchServer", id, e.grant + 1)
    IN  IF r0.status = "absent" THEN Fail(s, "ResourceNoExist")
        ELSE IF r0.status # "init" THEN Fail(s, "ApplicationAlreadyLaunched")
        ELSE IF ~hasBroker /\ useBroker /\ confOperator = "dc_mac"
        THEN Fail(s1, "BrokerNotEnoughResources")
        ELSE IF hasBroker THEN launchSave(s1, id, r1, TRUE, e)
        ELSE IF e.grant < 0 THEN Fail(s1, "NoEnoughResources")
        ELSE IF ~e.op
        THEN Fault(releaseNoReadyInstance(s3, r2.resourceBlockKey, r2.noReadyInstance),
                   "OperatorError")
        ELSE launchSave(s3, id, [r2 EXCEPT !.requestInstance = e.grant], FALSE, e)

\* launchLocked starting the tracer also when LaunchServer failed
launchTraceOnFailure(s, id, useBroker, e) ==
    LET r0 == s.reg[id]
        hasBroker == useBroker /\ e.apply # ""
        s1 == IF hasBroker THEN BrokerApply(s, e.apply) ELSE s
        r1 == IF hasBroker THEN [r0 EXCEPT !.brokerResourceID = e.apply] ELSE r0
        s2 == [s1 EXCEPT !.pool = ReserveInstances(@, e.key, e.grant)]
        r2 == [r1 EXCEPT !.noReadyInstance = e.grant, !.resourceBlockKey = e.key]
        s3 == OperatorCall(s2, "LaunchServer", id, e.grant)
    IN  IF r0.status = "absent" THEN Fail(s, "ResourceNoExist")
        ELSE IF r0.status # "init" THEN Fail(s, "ApplicationAlreadyLaunched")
        ELSE IF ~hasBroker /\ useBroker /\ confOperator = "dc_mac"
        THEN Fail(s1, "BrokerNotEnoughResources")
        ELSE IF hasBroker THEN launchSave(s1, id, r1, TRUE, e)
        ELSE IF e.grant < 0 THEN Fail(s1, "NoEnoughResources")
        ELSE IF ~e.op
        THEN [Fault(releaseNoReadyInstance(s3, r2.resourceBlockKey, r2.noReadyInstance),
                    "OperatorError") EXCEPT !.spawn = Append(@, id)]
        ELSE launchSave(s3, id, [r2 EXCEPT !.requestInstance = e.grant], FALSE, e)

\* launch going to the Pool on every operator when no broker resource applied
launchAnyOperator(s, id, useBroker, e) ==
    LET r0 == s.reg[id]
        hasBroker == useBroker /\ e.apply # ""
        s1 == IF hasBroker THEN BrokerApply(s, e.apply) ELSE s
        r1 == IF hasBroker THEN [r0 EXCEPT !.brokerResourceID = e.apply] ELSE r0
        s2 == [s1 EXCEPT !.pool = ReserveInstances(@, e.key, e.grant)]
        r2 == [r1 EXCEPT !.noReadyInstance = e.grant, !.resourceBlockKey = e.key]
        s3 == OperatorCall(s2, "LaunchServer", id, e.grant)
    IN  IF r0.status = "absent" THEN Fail(s, "ResourceNoExist")
        ELSE IF r0.status # "init" THEN Fail(s, "ApplicationAlreadyLaunched")
        ELSE IF hasBroker THEN launchSave(s1, id, r1, TRUE, e)
        ELSE IF e.grant < 0 THEN Fail(s1, "NoEnoughResources")
        ELSE IF ~e.op
        THEN Fault(releaseNoReadyInstance(s3, r2.resourceBlockKey, r2.noReadyInstance),
                   "OperatorError")
        ELSE launchSave(s3, id, [r2 EXCEPT !.requestInstance = e.grant], FALSE, e)

\* rm.launch between lockResource and the deferred unlockResource
launchLocked(s, id, useBroker, e) ==
    LET r0 == s.reg[id]
        hasBroker == useBroker /\ e.apply # ""
        s1 == IF hasBroker THEN BrokerApply(s, e.apply) ELSE s
        r1 == IF hasBroker THEN [r0 EXCEPT !.brokerResourceID = e.apply] ELSE r0
        s2 == [s1 EXCEPT !.pool = ReserveInstances(@, e.key, e.grant)]
        r2 == [r1 EXCEPT !.noReadyInstance = e.grant, !.resourceBlockKey = e.key]
        s3 == OperatorCall(s2, "LaunchServer", id, e.grant)
    IN  IF r0.status = "absent" THEN Fail(s, "ResourceNoExist")
        ELSE IF r0.status # "init" THEN Fail(s, "ApplicationAlreadyLaunched")
        ELSE IF ~hasBroker /\ useBroker /\ confOperator = "dc_mac"
        THEN Fail(s1, "BrokerNotEnoughResources")
        ELSE IF hasBroker THEN launchSave(s1, id, r1, TRUE, e)
        ELSE IF e.grant < 0 THEN Fail(s1, "NoEnoughResources")
        ELSE IF ~e.op
        THEN Fault(releaseNoReadyInstance(s3, r2.resourceBlockKey, r2.noReadyInstance),
                   "OperatorError")
        ELSE launchSave(s3, id, [r2 EXCEPT !.requestInstance = e.grant], FALSE, e)

\* launch with the running check left out
launchNoGate(s, id, useBroker, e) == launchLocked(s, id, useBroker, e)

\* rm.launch
launch(s, id, useBroker, e) ==
    IF ~running THEN Fail(s, "ManagerNotRunning") ELSE launchLocked(s, id, useBroker, e)

\* scaleDirect asking the operator for the grant instead of the new total
scaleAsksDelta(s, id, r, hasBroker, es) ==
    LET e == Head(es)
        deltaInstance == e.grant
        targetInstance == r.requestInstance + deltaInstance
        s1 == [s EXCEPT !.pool = ReserveInstances(@, e.key, deltaInstance)]
        r1 == IF deltaInstance > 0
              THEN [r EXCEPT !.noReadyInstance = deltaInstance, !.resourceBlockKey = e.key]
              ELSE r
        s2 == OperatorCall(s1, "ScaleServer", id, deltaInstance)
        r2 == IF hasBroker THEN r ELSE [r1 EXCEPT !.requestInstance = targetInstance]
        r3 == [r2 EXCEPT !.status = "deploying"]
        s3 == saveResources(IF hasBroker THEN s ELSE s2, id, r3, e.put)
    IN  IF ~hasBroker /\ e.grant < 0 THEN Fail(s, "NoEnoughResources")
        ELSE IF ~hasBroker /\ ~e.op
        THEN Fault(releaseNoReadyInstance(s2, r1.resourceBlockKey, r1.noReadyInstance),
                   "OperatorError")
        ELSE IF s3.err # "nil"
        THEN releaseNoReadyInstance(s3, r3.resourceBlockKey, r3.noReadyInstance)
        ELSE [s3 EXCEPT !.spawn = Append(@, id)]

RECURSIVE scale(_, _, _)
\* rm.scale from the Pool request to the deploying row (manager.go 881-925);
\* es: what the Pool, the operator and the store answer, outermost call first
scaleDirect(s, id, r, hasBroker, es) ==
    LET e == Head(es)
        deltaInstance == e.grant
        targetInstance == r.requestInstance + deltaInstance
        s1 == [s EXCEPT !.pool = ReserveInstances(@, e.key, deltaInstance)]
        r1 == IF deltaInstance > 0
              THEN [r EXCEPT !.noReadyInstance = deltaInstance, !.resourceBlockKey = e.key]
              ELSE r
        s2 == OperatorCall(s1, "ScaleServer", id, targetInstance)
        r2 == IF hasBroker THEN r ELSE [r1 EXCEPT !.requestInstance = targetInstance]
        r3 == [r2 EXCEPT !.status = "deploying"]
        s3 == saveResources(IF hasBroker THEN s ELSE s2, id, r3, e.put)
    IN  IF ~hasBroker /\ e.grant < 0 THEN Fail(s, "NoEnoughResources")
        ELSE IF ~hasBroker /\ ~e.op
        THEN Fault(releaseNoReadyInstance(s2, r1.resourceBlockKey, r1.noReadyInstance),
                   "OperatorError")
        ELSE IF s3.err # "nil"
        THEN releaseNoReadyInstance(s3, r3.resourceBlockKey, r3.noReadyInstance)
        ELSE [s3 EXCEPT !.spawn = Append(@, id)]

\* scaleLocked without the test of the status
scaleAnyStatus(s, id, es) ==
    LET r == s.reg[id]
        hasBroker == r.brokerResourceID # ""
        s1 == IF hasBroker THEN scale(s, r.brokerResourceID, Tail(es)) ELSE s
    IN  IF r.status = "absent" THEN Fail(s, "ResourceNoExist")
        ELSE IF s1.err # "nil" THEN s1
        ELSE scaleDirect(s1, id, r, hasBroker, es)

\* rm.scale between lockResource and the deferred unlockResource
scaleLocked(s, id, es) ==
    LET r == s.reg[id]
        hasBroker == r.brokerResourceID # ""
        s1 == IF hasBroker THEN scale(s, r.brokerResourceID, Tail(es)) ELSE s
    IN  IF r.status = "absent" THEN Fail(s, "ResourceNoExist")
        ELSE IF r.status # "running" THEN Fail(s, "ResourceNotRunning")
        ELSE IF s1.err # "nil" THEN s1
        ELSE scaleDirect(s1, id, r, hasBroker, es)

\* rm.scale
scale(s, id, es) ==
    IF ~running THEN Fail(s, "ManagerNotRunning") ELSE scaleLocked(s, id, es)

RECURSIVE release(_, _, _)
\* releaseLocked calling ReleaseServer for the resource itself after the
\* release of its broker resource
releaseBoth(s, id, es) ==
    LET e == Head(es)
        r == s.reg[id]
        hasBroker == r.brokerResourceID # ""
        s0 == IF hasBroker THEN release(s, r.brokerResourceID, Tail(es)) ELSE s
        s1 == IF s0.err # "nil" THEN s0
              ELSE IF e.op THEN OperatorCall(s0, "ReleaseServer", id, 0)
              ELSE Fault(OperatorCall(s0, "ReleaseServer", id, 0), "OperatorError")
        s2 == IF r.noReadyInstance > 0
              THEN releaseNoReadyInstance(s1, r.resourceBlockKey, r.noReadyInstance)
              ELSE s1
        r1 == [r EXCEPT !.noReadyInstance = 0, !.status = "released"]
    IN  IF r.status = "absent" THEN Fail(s, "ResourceNoExist")
        ELSE IF r.status = "released" THEN Fail(s, "ResourceAlreadyReleased")
        ELSE IF s1.err # "nil" THEN s1
        ELSE saveResources(s2, id, r1, e.put)

\* rm.release between lockResource and the deferred unlockResource
releaseLocked(s, id, es) ==
    LET e == Head(es)
        r == s.reg[id]
        hasBroker == r.brokerResourceID # ""
        s1 == IF hasBroker
              THEN release(s, r.brokerResourceID, Tail(es))
              ELSE IF e.op THEN OperatorCall(s, "ReleaseServer", id, 0)
              ELSE Fault(OperatorCall(s, "ReleaseServer", id, 0), "OperatorError")
        s2 == IF r.noReadyInstance > 0
              THEN releaseNoReadyInstance(s1, r.resourceBlockKey, r.noReadyInstance)
              ELSE s1
        r1 == [r EXCEPT !.noReadyInstance = 0, !.status = "released"]
    IN  IF r.status = "absent" THEN Fail(s, "ResourceNoExist")
        ELSE IF r.status = "released" THEN Fail(s, "ResourceAlreadyReleased")
        ELSE IF s1.err # "nil" THEN s1
        ELSE saveResources(s2, id, r1, e.put)

\* rm.release
release(s, id, es) ==
    IF ~running THEN Fail(s, "ManagerNotRunning") ELSE releaseLocked(s, id, es)

\* rm.createResources: an insert, refused for a resourceID the table holds
createResources(s, id, r, createOk) ==
    LET s1 == [s EXCEPT !.writes = Append(@, id)]
    IN  IF s.st[id].status # "absent" THEN Fail(s1, "StoreError")
        ELSE IF ~createOk THEN Fault(s1, "StoreError")
        ELSE [s1 EXCEPT !.st[id] = table2Resource(r)]

\* init registering the row in the map before it creates it in the table
initMapFirst(s, id, createOk) ==
    LET s1 == createResources([s EXCEPT !.reg[id] = NewResource(id)], id, NewResource(id),
                              createOk)
    IN  IF ~running THEN Fail(s, "ManagerNotRunning")
        ELSE IF s.reg[id].status # "absent" THEN Fail(s, "ResourceAlreadyInit")
        ELSE s1

\* rm.init
init(s, id, createOk) ==
    LET s1 == createResources(s, id, NewResource(id), createOk)
    IN  IF ~running THEN Fail(s, "ManagerNotRunning")
        ELSE IF s.reg[id].status # "absent" THEN Fail(s, "ResourceAlreadyInit")
        ELSE IF s1.err # "nil" THEN s1
        ELSE [s1 EXCEPT !.reg[id] = NewResource(id)]

\* rm.getServerRealName
getServerRealName(s, id) ==
    IF s.reg[id].brokerResourceID # "" THEN s.reg[id].brokerResourceID ELSE id

\* isFinishDeploying without the call it makes: a tracer stops on
\* ResourceNoExist and on a terminated service
isFinishDeploying(err, terminated) ==
    \/ err = "ResourceNoExist"
    \/ err = "nil" /\ terminated


(***************************************************************************)
(* Goroutines the operations start                                         *)
(***************************************************************************)
\* a trace goroutine entering its select: rm.ctx is cancelled iff stop() ran
\* after the last start()
NewTracer(id) == [id |-> id, dead |-> ~running]

\* a getServiceInfo execution that has read target as the real name.  by is
\* "user", or "tracer" for a trace goroutine, or "cancelled" for a trace
\* goroutine whose scope stop() cancelled after it left its select
NewCall(id, by, target) == [id |-> id, by |-> by, target |-> target]

RECURSIVE SpawnedTracers(_)
SpawnedTracers(spawn) ==
    IF spawn = <<>> THEN EmptyBag
    ELSE SetToBag({NewTracer(Head(spawn))}) (+) SpawnedTracers(Tail(spawn))

RECURSIVE CallsBy(_, _)
\* how many executions of the bag were started by one of `who`
CallsBy(calls, who) ==
    IF calls = EmptyBag THEN 0
    ELSE LET c == CHOOSE x \in BagToSet(calls) : TRUE
             n == CopiesIn(c, calls)
             rest == [x \in BagToSet(calls) \ {c} |-> calls[x]]
         IN  (IF c.by \in who THEN n ELSE 0) + CallsBy(rest, who)

WithinBounds(pend, tr, gs) ==
    /\ BagCardinality(pend) <= MaxPending
    /\ BagCardinality(tr) + CallsBy(gs, {"tracer", "cancelled"}) <= MaxTracers
    /\ CallsBy(gs, {"user"}) <= MaxCalls

\* the step ends with the state s of an operation, having started the
\* goroutines of s.spawn
Commit(s, gs, tr) ==
    /\ s.faults <= MaxFaults
    /\ faults' = s.faults
    /\ WithinBounds(s.pend, tr (+) SpawnedTracers(s.spawn), gs)
    /\ registered' = s.reg
    /\ store' = s.st
    /\ pool' = s.pool
    /\ pending' = s.pend
    /\ tracers' = tr (+) SpawnedTracers(s.spawn)
    /\ gsi' = gs
    /\ UNCHANGED <<confOperator, running, runPc, loops>>
    /\ UNCHANGED <<lockVars, detailVars, hwu>>

(***************************************************************************)
(* What the Pool, the operator, the store and the broker set may answer    *)
(***************************************************************************)
\* answers to one launch or scale: grant -1 is the filter's refusal
Answers(keys, maxGrant, brokers) ==
    UNION {{[apply |-> a, grant |-> g, key |-> k, op |-> o, put |-> p] :
                a \in brokers \cup {""},
                g \in {-1} \cup {x \in Grants(pool[k].free) : x <= maxGrant},
                o \in BOOLEAN, p \in BOOLEAN} : k \in keys}

NoAnswer == [apply |-> "", grant |-> -1, key |-> "", op |-> FALSE, put |-> FALSE]

\* the resource whose requestInstance a scale of id raises
ScaleTarget(id) ==
    IF registered[id].brokerResourceID # "" THEN registered[id].brokerResourceID ELSE id

(***************************************************************************)
(* User operations (handlerWithUser)                                       *)
(***************************************************************************)
Init(id) ==
    \E createOk \in IF init(Cur, id, TRUE).err = "nil" THEN BOOLEAN ELSE {TRUE} :
        Commit(init(Cur, id, createOk), gsi, tracers)

\* the errors an operation returns before it asks the Pool, the operator,
\* the store or the broker set for anything
PreconditionErrors ==
    {"ManagerNotRunning", "ResourceNoExist", "ApplicationAlreadyLaunched",
     "ResourceNotRunning", "ResourceAlreadyReleased", "ResourceAlreadyInit"}

Launch(id, useBroker) ==
    \E e \in IF launch(Cur, id, useBroker, NoAnswer).err \in PreconditionErrors
              THEN {NoAnswer}
              ELSE Answers(LaunchKeys, MaxGrant,
                           IF useBroker THEN BrokerCandidates(Cur, id) ELSE {}) :
        Commit(launch(Cur, id, useBroker, e), gsi, tracers)

\* answers to a scale of id, outermost call first: the scale of a
\* broker-backed resource asks the Pool and the operator for its broker
\* resource and the store for both
ScaleAnswers(id) ==
    IF scale(Cur, id, <<NoAnswer, NoAnswer>>).err \in PreconditionErrors
    THEN {<<NoAnswer, NoAnswer>>}
    ELSE LET es == Answers(ScaleKeys,
                           MaxRequest - registered[ScaleTarget(id)].requestInstance, {})
         IN  IF ScaleTarget(id) = id THEN {<<e, NoAnswer>> : e \in es}
             ELSE {<<[NoAnswer EXCEPT !.put = p], e>> : e \in es, p \in BOOLEAN}

Scale(id) == \E es \in ScaleAnswers(id) : Commit(scale(Cur, id, es), gsi, tracers)

\* answers to a release of id, outermost call first
ReleaseAnswers(id) ==
    IF release(Cur, id, <<NoAnswer, NoAnswer>>).err \in PreconditionErrors
    THEN {<<NoAnswer, NoAnswer>>}
    ELSE LET es == {[NoAnswer EXCEPT !.op = o, !.put = p] : o, p \in BOOLEAN}
         IN  IF ScaleTarget(id) = id THEN {<<e, NoAnswer>> : e \in es}
             ELSE {<<[NoAnswer EXCEPT !.put = p], e>> : e \in es, p \in BOOLEAN}

Release(id) == \E es \in ReleaseAnswers(id) : Commit(release(Cur, id, es), gsi, tracers)

\* rm.isServicePreparing: err, and the answer in val
\* isServicePreparing answering true for every registered resource
preparingWhenRegistered(s, id) ==
    IF ~running THEN [val |-> FALSE, err |-> "ManagerNotRunning", s |-> s]
    ELSE [val |-> s.reg[id].status # "absent", err |-> "nil", s |-> s]

isServicePreparing(s, id) ==
    IF ~running THEN [val |-> FALSE, err |-> "ManagerNotRunning", s |-> s]
    ELSE [val |-> s.reg[id].status \in {"init", "deploying"}, err |-> "nil", s |-> s]

IsServicePreparing(id) == Commit(isServicePreparing(Cur, id).s, gsi, tracers)

\* rm.getServiceInfo up to the return of getServerRealName: the running
\* check, then the real name read under the resource lock
getServiceInfoName(s, id) ==
    IF ~running THEN Fail(s, "ManagerNotRunning")
    ELSE IF s.reg[id].status = "absent" THEN Fail(s, "ResourceNoExist")
    ELSE s

\* what the operator and the store may answer to the rest of a getServiceInfo
StatusAnswers ==
    {a \in [op : BOOLEAN, terminated : BOOLEAN, ready : 0 .. MaxRequest, put : BOOLEAN] :
        /\ a.terminated => a.ready = 0
        /\ ~a.op => ~a.terminated /\ a.ready = 0 /\ a.put}

\* rm.getServiceInfo lines 660-675: operator.GetServerStatus with no lock
\* held, then freshDeployingStatus
getServiceInfoStatus(s, id, target, a) ==
    LET s1 == OperatorCall(s, "GetServerStatus", target, 0)
    IN  IF ~a.op THEN Fault(s1, "OperatorError")
        ELSE freshDeployingStatus(s1, id, a.ready, a.terminated, a.put)

\* the execution c of getServiceInfo ends with s.err and its caller goes on;
\* gs, tr: the other executions and the other waiting tracers.  A tracer that
\* is not finished waits in its select again
Finish(s, c, terminated, gs, tr) ==
    Commit(s, gs,
           IF c.by \in {"tracer", "cancelled"} /\ ~isFinishDeploying(s.err, terminated)
           THEN tr (+) SetToBag({NewTracer(c.id)}) ELSE tr)

\* handlerWithUser.GetServiceInfo called: rm.getServiceInfo to line 658
GetServiceInfo(id) ==
    LET s == getServiceInfoName(Cur, id)
    IN  IF s.err # "nil" THEN Commit(s, gsi, tracers)
        ELSE Commit(s, gsi (+) SetToBag({NewCall(id, "user", getServerRealName(s, id))}),
                    tracers)

\* the rest of the execution c of getServiceInfo.  The operator's answer
\* depends on nothing the manager holds, so it is drawn where it is used
GsiAnswer(c, a) ==
    /\ BagIn(c, gsi)
    /\ Finish(getServiceInfoStatus(Cur, c.id, c.target, a), c, a.terminated,
              gsi (-) SetToBag({c}), tracers)

GsiStatus(c) == \E a \in StatusAnswers : GsiAnswer(c, a)

(***************************************************************************)
(* Tracers                                                                 *)
(***************************************************************************)
\* rm.trace: the ticker fires; isFinishDeploying calls getServiceInfo
TracerTick(t) ==
    LET s == getServiceInfoName(Cur, t.id)
        c == NewCall(t.id, IF t.dead THEN "cancelled" ELSE "tracer",
                     getServerRealName(s, t.id))
    IN  /\ BagIn(t, tracers)
        /\ IF s.err # "nil"
           THEN Finish(s, c, FALSE, gsi, tracers (-) SetToBag({t}))
           ELSE Commit(s, gsi (+) SetToBag({c}), tracers (-) SetToBag({t}))

\* rm.trace: the select takes the cancelled context and the goroutine ends
TracerExit(t) ==
    /\ BagIn(t, tracers)
    /\ t.dead
    /\ Commit(Cur, gsi, tracers (-) SetToBag({t}))

(***************************************************************************)
(* Role loop (rm.Run) and background loops                                 *)
(***************************************************************************)
RECURSIVE NoReadyOf(_, _, _)
\* the noReadyInstance of the rows of ids bound to block key
NoReadyOf(rows, ids, key) ==
    IF ids = {} THEN 0
    ELSE LET id == CHOOSE x \in ids : TRUE
         IN  (IF rows[id].status # "absent" /\ rows[id].resourceBlockKey = key
              THEN rows[id].noReadyInstance ELSE 0)
             + NoReadyOf(rows, ids \ {id}, key)

\* rm.listResources(init, deploying, running)
listResources(st) ==
    [id \in ResourceIDs |->
        IF st[id].status \in {"init", "deploying", "running"} THEN st[id] ELSE NoRes]

RECURSIVE recoverRequested(_, _, _)
\* a recover that re-registers requestInstance in place of noReadyInstance
recoverRequested(p, rows, ids) ==
    IF ids = {} THEN p
    ELSE LET id == CHOOSE x \in ids : TRUE
             r == rows[id]
         IN  recoverRequested(IF r.status = "absent" \/ r.requestInstance <= 0 THEN p
                              ELSE RecoverNoReadyBlock(p, r.resourceBlockKey,
                                                       r.requestInstance),
                              rows, ids \ {id})

RECURSIVE recoverRows(_, _, _)
\* the loop of rm.recover over the loaded rows: RecoverNoReadyBlock for every
\* row with noReadyInstance > 0
recoverRows(p, rows, ids) ==
    IF ids = {} THEN p
    ELSE LET id == CHOOSE x \in ids : TRUE
             r == rows[id]
         IN  recoverRows(IF r.status = "absent" \/ r.noReadyInstance <= 0 THEN p
                         ELSE RecoverNoReadyBlock(p, r.resourceBlockKey, r.noReadyInstance),
                         rows, ids \ {id})

\* the Pool rm.recover builds
recoverPool(rows) == recoverRows(NewNodeInfoPool, rows, ResourceIDs)

\* Master token: rm.start to line 240 (recover, running, new context)
StartRecover ==
    /\ runPc = "recv"
    /\ ~running
    /\ \E listOk \in BOOLEAN :
        IF listOk
        THEN /\ registered' = listResources(store)
             /\ pool' = recoverPool(listResources(store))
             /\ running' = TRUE
             /\ runPc' = "brokerRecover"
             /\ UNCHANGED faults
        ELSE /\ faults < MaxFaults
             /\ faults' = faults + 1
             /\ UNCHANGED <<registered, pool, running, runPc>>
    /\ UNCHANGED <<confOperator, loops, store, pending, gsi, tracers>>
    /\ UNCHANGED <<lockVars, detailVars, hwu>>

\* the tracers runAllTracer starts
RunAllTracer ==
    LET ids == {id \in ResourceIDs : registered[id].status = "deploying"}
    IN  [t \in {NewTracer(id) : id \in ids} |-> 1]

\* rm.start lines 241-250: brokerSet.Recover, then the goroutines
StartBroker ==
    /\ runPc = "brokerRecover"
    /\ runPc' = "recv"
    /\ \E recoverOk \in BOOLEAN :
        IF recoverOk
        THEN /\ loops' = TRUE
             /\ tracers' = tracers (+) RunAllTracer
             /\ WithinBounds(pending, tracers', gsi)
             /\ timers' = [app |-> "armed", rsc |-> "armed"]
             /\ UNCHANGED faults
        ELSE /\ faults < MaxFaults
             /\ faults' = faults + 1
             /\ UNCHANGED <<loops, tracers, timers>>
    /\ UNCHANGED <<confOperator, running, registered, store, pool, pending, gsi>>
    /\ UNCHANGED <<lockVars, details, hwu>>

\* a token that is neither Master, Slave nor Unknown: rm.Run logs a warning
OtherToken ==
    /\ runPc = "recv"
    /\ UNCHANGED <<mgrVars, lockVars, detailVars, hwu>>

\* a start() that recovers although the manager runs
StartAnew ==
    /\ runPc = "recv"
    /\ running
    /\ registered' = listResources(store)
    /\ pool' = recoverPool(listResources(store))
    /\ UNCHANGED <<confOperator, running, runPc, loops, store, pending, gsi, tracers, faults>>
    /\ UNCHANGED <<lockVars, detailVars, hwu>>

\* Master token while running: rm.start returns at once
StartAgain ==
    /\ runPc = "recv"
    /\ running
    /\ UNCHANGED <<confOperator, running, runPc, loops, registered, store, pool, pending,
                   gsi, tracers, faults>>
    /\ UNCHANGED <<lockVars, detailVars, hwu>>

\* rm.cancel() reaches the trace goroutines that are inside getServiceInfo
\* only when they come back to their select
Cancelled(gs) ==
    IF gs = EmptyBag THEN EmptyBag
    ELSE LET cs == {[c EXCEPT !.by = "cancelled"] : c \in {c \in BagToSet(gs) : c.by # "user"}}
                   \cup {c \in BagToSet(gs) : c.by = "user"}
         IN  [c \in cs |->
                 IF c.by = "user" THEN CopiesIn(c, gs)
                 ELSE CopiesIn(c, gs) + CopiesIn([c EXCEPT !.by = "tracer"], gs)]

\* Slave or Unknown token: rm.stop
Stop ==
    /\ runPc = "recv"
    /\ IF running
       THEN /\ running' = FALSE
            /\ loops' = FALSE
            /\ tracers' = IF tracers = EmptyBag THEN EmptyBag
                          ELSE LET ids == {t.id : t \in BagToSet(tracers)}
                               IN  [t \in {[id |-> id, dead |-> TRUE] : id \in ids} |->
                                       CopiesIn([id |-> t.id, dead |-> TRUE], tracers)
                                       + CopiesIn([id |-> t.id, dead |-> FALSE], tracers)]
            /\ gsi' = Cancelled(gsi)
            /\ timers' = [app |-> "off", rsc |-> "off"]
       ELSE UNCHANGED <<running, loops, tracers, gsi, timers>>
    /\ UNCHANGED <<confOperator, runPc, registered, store, pool, pending, faults>>
    /\ UNCHANGED <<lockVars, details, hwu>>

\* the role tokens rm.Run tells apart; "Other" is any further token
Tokens == {"Master", "Slave", "Unknown", "Other"}

\* rm.Run receiving token: the switch on the role event
Run(token) ==
    CASE token = "Master" -> StartRecover \/ StartAgain
      [] token \in {"Slave", "Unknown"} -> Stop
      [] OTHER -> OtherToken

\* a pending release sees GetLastUpdateTime() after its now
Arm(pend) ==
    IF pend = EmptyBag THEN EmptyBag
    ELSE LET rs == {[r EXCEPT !.armed = TRUE] : r \in BagToSet(pend)}
         IN  [r \in rs |-> CopiesIn([r EXCEPT !.armed = TRUE], pend)
                           + CopiesIn([r EXCEPT !.armed = FALSE], pend)]

\* rm.sync on a tick of runSync
Sync ==
    /\ loops
    /\ \E getOk \in BOOLEAN :
        IF getOk
        THEN /\ pool' = UpdateResources(pool)
             /\ pending' = Arm(pending)
             /\ UNCHANGED faults
        ELSE /\ faults < MaxFaults
             /\ faults' = faults + 1
             /\ UNCHANGED <<pool, pending>>
    /\ UNCHANGED <<confOperator, running, runPc, loops, registered, store, gsi, tracers>>
    /\ UNCHANGED <<lockVars, detailVars, hwu>>

\* rm.releaseNoReadyInstance line 728, on the Pool rm.nodeInfoPool names now
ApplyRelease(r) ==
    /\ BagIn(r, pending)
    /\ r.armed
    /\ pool' = ReleaseNoReadyInstance(pool, r.key, r.instance)
    /\ pending' = pending (-) SetToBag({r})
    /\ UNCHANGED <<confOperator, running, runPc, loops, registered, store, gsi, tracers, faults>>
    /\ UNCHANGED <<lockVars, detailVars, hwu>>

(***************************************************************************)
(* Published details: runAppDetailSync, runRscDetailSync.  Each goroutine  *)
(* waits on a time.NewTimer, which sends on its channel once.              *)
(***************************************************************************)
\* an entry of rm.appDetail that lists no resource
NoDetail ==
    [status |-> "absent", requestInstance |-> 0, noReadyInstance |-> 0,
     brokerResourceID |-> "", brokerName |-> "", brokerSold |-> FALSE]

\* the list runAppDetailSync builds from the map, per resourceID
AppDetails(reg) ==
    [id \in ResourceIDs |->
        IF reg[id].status \in {"absent", "released"} THEN NoDetail
        ELSE [status |-> reg[id].status,
              requestInstance |-> reg[id].requestInstance,
              noReadyInstance |-> reg[id].noReadyInstance,
              brokerResourceID |-> reg[id].brokerResourceID,
              brokerName |-> reg[id].brokerName,
              brokerSold |-> reg[id].brokerSold]]

\* runAppDetailSync: the timer's channel delivers and rm.appDetail is replaced
AppDetailSync ==
    /\ loops
    /\ timers.app = "armed"
    /\ timers' = [timers EXCEPT !.app = "fired"]
    /\ details' = [details EXCEPT !.app = AppDetails(registered)]
    /\ UNCHANGED <<mgrVars, lockVars, hwu>>

\* runRscDetailSync: the timer's channel delivers and rm.rscDetail is replaced
RscDetailSync ==
    /\ loops
    /\ timers.rsc = "armed"
    /\ timers' = [timers EXCEPT !.rsc = "fired"]
    /\ details' = [details EXCEPT !.rsc = pool]
    /\ UNCHANGED <<mgrVars, lockVars, hwu>>

(***************************************************************************)
(* handlerWithUser.resourceID.  A string is a sequence of characters.      *)
(***************************************************************************)
Chars == {"a", "A", "_", "-"}

\* the strings of at most n characters
RECURSIVE Strings(_)
Strings(n) ==
    IF n = 0 THEN {<<>>}
    ELSE Strings(n - 1) \cup {Append(s, c) : s \in Strings(n - 1), c \in Chars}

\* strings.ToLower
ToLower(str) == [i \in 1 .. Len(str) |-> IF str[i] = "A" THEN "a" ELSE str[i]]

\* strings.ReplaceAll(str, old, new) for one-character old and new
ReplaceAll(str, old, new) == [i \in 1 .. Len(str) |-> IF str[i] = old THEN new ELSE str[i]]

\* fmt.Sprintf("%s-%s", a, b)
Sprintf(a, b) == a \o <<"-">> \o b

\* resourceID without the lower-casing
resourceIDKeepCase(user, id) == ReplaceAll(Sprintf(user, id), "_", "-")

\* hwu.resourceID(id) of the handler of user
resourceID(user, id) == ReplaceAll(ToLower(Sprintf(user, id)), "_", "-")

\* a user operation of the handler rewrites the id its caller passes
Rewrite ==
    /\ hwu.n = 0
    /\ hwu' = [hwu EXCEPT !.out = resourceID(hwu.user, hwu.id), !.n = 1]
    /\ UNCHANGED <<mgrVars, lockVars, detailVars>>

\* the caller passes the id it got to the handler again
Reapply ==
    /\ hwu.n = 1
    /\ hwu' = [hwu EXCEPT !.out = resourceID(hwu.user, hwu.out), !.n = 2]
    /\ UNCHANGED <<mgrVars, lockVars, detailVars>>

(***************************************************************************)
(* The lock table: lockResource, unlockResource, runLockCleaner.  A lock   *)
(* object lives on after the cleaner deleted its map entry, for the        *)
(* goroutines that looked it up before.                                    *)
(***************************************************************************)
Idle == [pc |-> "idle", id |-> "", m |-> 0, mine |-> 0]

\* a goroutine calls lockResource(id); it may have to create a lock object
LockCall(g, id) ==
    /\ gor[g].pc = "idle"
    /\ Len(locks) + Cardinality({h \in Goroutines : gor[h].pc \in {"rlookup", "create"}})
           < MaxLocks
    /\ gor' = [gor EXCEPT ![g] = [Idle EXCEPT !.pc = "rlookup", !.id = id]]
    /\ UNCHANGED <<lockMap, locks>>
    /\ UNCHANGED <<mgrVars, detailVars, hwu>>

\* lockResource lines 529-531: the lookup under the read lock
LockLookup(g) ==
    /\ gor[g].pc = "rlookup"
    /\ gor' = [gor EXCEPT ![g].m = lockMap[gor[g].id],
                          ![g].pc = IF lockMap[gor[g].id] # 0 THEN "lock" ELSE "create"]
    /\ UNCHANGED <<lockMap, locks>>
    /\ UNCHANGED <<mgrVars, detailVars, hwu>>

\* lockResource lines 538-547: under the write lock, look up again and
\* create the entry when there is none
LockCreate(g) ==
    /\ gor[g].pc = "create"
    /\ IF lockMap[gor[g].id] # 0
       THEN /\ gor' = [gor EXCEPT ![g].m = lockMap[gor[g].id], ![g].pc = "lock"]
            /\ UNCHANGED <<lockMap, locks>>
       ELSE /\ locks' = Append(locks, [held |-> FALSE, expired |-> FALSE])
            /\ lockMap' = [lockMap EXCEPT ![gor[g].id] = Len(locks) + 1]
            /\ gor' = [gor EXCEPT ![g].m = Len(locks) + 1, ![g].pc = "lock"]
    /\ UNCHANGED <<mgrVars, detailVars, hwu>>

\* mutex.Lock() of lines 533 and 549: lockResource returns
LockAcquire(g) ==
    /\ gor[g].pc = "lock"
    /\ ~locks[gor[g].m].held
    /\ locks' = [locks EXCEPT ![gor[g].m].held = TRUE]
    /\ gor' = [gor EXCEPT ![g].pc = "critical", ![g].mine = gor[g].m]
    /\ UNCHANGED lockMap
    /\ UNCHANGED <<mgrVars, detailVars, hwu>>

\* unlockResource lines 554-560: the lookup; without an entry it returns
UnlockLookup(g) ==
    /\ gor[g].pc = "critical"
    /\ gor' = [gor EXCEPT ![g] =
                  IF lockMap[gor[g].id] # 0
                  THEN [gor[g] EXCEPT !.pc = "unlock", !.m = lockMap[gor[g].id]]
                  ELSE Idle]
    /\ UNCHANGED <<lockMap, locks>>
    /\ UNCHANGED <<mgrVars, detailVars, hwu>>

\* unlockResource line 568: mutex.Unlock() of the lock found in the map;
\* unlocking an unlocked sync.Mutex is a fatal error of the process
UnlockRelease(g) ==
    /\ gor[g].pc = "unlock"
    /\ IF locks[gor[g].m].held
       THEN /\ locks' = [locks EXCEPT ![gor[g].m].held = FALSE]
            /\ gor' = [gor EXCEPT ![g] = Idle]
       ELSE /\ gor' = [h \in Goroutines |-> [gor[h] EXCEPT !.pc = "fatal"]]
            /\ UNCHANGED locks
    /\ UNCHANGED lockMap
    /\ UNCHANGED <<mgrVars, detailVars, hwu>>

\* 24 hours have passed since createAt of lock object m
Expire(m) ==
    /\ ~locks[m].expired
    /\ locks' = [locks EXCEPT ![m].expired = TRUE]
    /\ UNCHANGED <<lockMap, gor>>
    /\ UNCHANGED <<mgrVars, detailVars, hwu>>

\* runLockCleaner on a tick: every entry older than 24h is deleted
CleanLocks ==
    /\ loops
    /\ \A g \in Goroutines : gor[g].pc # "fatal"
    /\ lockMap' = [id \in ResourceIDs |->
                      IF lockMap[id] # 0 /\ locks[lockMap[id]].expired THEN 0
                      ELSE lockMap[id]]
    /\ UNCHANGED <<locks, gor>>
    /\ UNCHANGED <<mgrVars, detailVars, hwu>>

(***************************************************************************)
(* Specifications                                                          *)
(***************************************************************************)
MgrInit ==
    /\ confOperator = "k8s"
    /\ running = FALSE
    /\ runPc = "recv"
    /\ loops = FALSE
    /\ registered = [id \in ResourceIDs |-> NoRes]
    /\ store = [id \in ResourceIDs |-> NoRes]
    /\ pool = NewNodeInfoPool
    /\ pending = EmptyBag
    /\ gsi = EmptyBag
    /\ tracers = EmptyBag
    /\ faults = 0

LockTableInit ==
    /\ lockMap = [id \in ResourceIDs |-> 0]
    /\ locks = <<>>
    /\ gor = [g \in Goroutines |-> Idle]

\* rm.appDetail and rm.rscDetail before their first publication list nothing
DetailInit ==
    /\ timers = [app |-> "off", rsc |-> "off"]
    /\ details = [app |-> [id \in ResourceIDs |-> NoDetail], rsc |-> NewNodeInfoPool]

\* no handler call in progress
NoHandler == [user |-> <<>>, id |-> <<>>, out |-> <<>>, n |-> 0]

Init0 == MgrInit /\ LockTableInit /\ DetailInit /\ hwu = NoHandler

Next ==
    \/ \E id \in ResourceIDs : Init(id)
    \/ \E id \in ResourceIDs, useBroker \in BOOLEAN : Launch(id, useBroker)
    \/ \E id \in ResourceIDs : Scale(id)
    \/ \E id \in ResourceIDs : Release(id)
    \/ \E id \in ResourceIDs : IsServicePreparing(id)
    \/ \E id \in ResourceIDs : GetServiceInfo(id)
    \/ \E c \in BagToSet(gsi) : GsiStatus(c)
    \/ \E t \in BagToSet(tracers) : TracerTick(t)
    \/ \E t \in BagToSet(tracers) : TracerExit(t)
    \/ StartRecover
    \/ StartBroker
    \/ StartAgain
    \/ OtherToken
    \/ Stop
    \/ Sync
    \/ \E r \in BagToSet(pending) : ApplyRelease(r)

Spec == Init0 /\ [][Next]_vars

\* the lock table of a manager in master role, its cleaner running
LockInit ==
    /\ confOperator = "k8s"
    /\ running = TRUE
    /\ runPc = "recv"
    /\ loops = TRUE
    /\ registered = [id \in ResourceIDs |-> NoRes]
    /\ store = [id \in ResourceIDs |-> NoRes]
    /\ pool = NewNodeInfoPool
    /\ pending = EmptyBag
    /\ gsi = EmptyBag
    /\ tracers = EmptyBag
    /\ faults = 0
    /\ LockTableInit
    /\ timers = [app |-> "armed", rsc |-> "armed"]
    /\ details = [app |-> [id \in ResourceIDs |-> NoDetail], rsc |-> NewNodeInfoPool]
    /\ hwu = NoHandler

LockNext ==
    \/ \E g \in Goroutines, id \in ResourceIDs : LockCall(g, id)
    \/ \E g \in Goroutines : LockLookup(g)
    \/ \E g \in Goroutines : LockCreate(g)
    \/ \E g \in Goroutines : LockAcquire(g)
    \/ \E g \in Goroutines : UnlockLookup(g)
    \/ \E g \in Goroutines : UnlockRelease(g)
    \/ \E m \in 1 .. Len(locks) : Expire(m)
    \/ CleanLocks

\* every goroutine goes on when it can: lockResource and unlockResource run
\* to their end, a holder does call unlockResource, and sync.Mutex hands the
\* lock to a waiter when it is free again and again
LockFairness ==
    \A g \in Goroutines :
        /\ WF_vars(LockLookup(g))
        /\ WF_vars(LockCreate(g))
        /\ SF_vars(LockAcquire(g))
        /\ WF_vars(UnlockLookup(g))
        /\ WF_vars(UnlockRelease(g))

LockSpec == LockInit /\ [][LockNext]_vars /\ LockFairness

\* runSync ticks every syncTimeGap while its context lives, and a
\* releaseNoReadyInstance goroutine that has seen a snapshot goes on to its
\* next statement
PoolFairness ==
    /\ WF_vars(Sync)
    /\ \A key \in BlockKeys, n \in 1 .. MaxRequest :
          WF_vars(ApplyRelease([key |-> key, instance |-> n, armed |-> TRUE]))

FairSpec == Init0 /\ [][Next]_vars /\ PoolFairness

\* the role loop, Init and Release, the snapshots and the two publishers
DetailNext ==
    \/ StartRecover
    \/ StartBroker
    \/ Stop
    \/ \E id \in ResourceIDs : Init(id)
    \/ \E id \in ResourceIDs : Release(id)
    \/ Sync
    \/ AppDetailSync
    \/ RscDetailSync

\* a publisher whose timer has delivered goes on to its assignment
DetailFairness == WF_vars(AppDetailSync) /\ WF_vars(RscDetailSync)

DetailSpec == Init0 /\ [][DetailNext]_vars /\ DetailFairness

\* a handler of any user, called with any id
HandlerInit ==
    /\ MgrInit /\ LockTableInit /\ DetailInit
    /\ hwu \in [user : Strings(MaxLen), id : Strings(MaxLen), out : {<<>>}, n : {0}]

HandlerNext == Rewrite \/ Reapply

HandlerSpec == HandlerInit /\ [][HandlerNext]_vars

\* one master term: the user operations that change a resource, the
\* tracers, the snapshots and the compensating releases
TraceNext ==
    \/ \E id \in ResourceIDs : Init(id)
    \/ \E id \in ResourceIDs, useBroker \in BOOLEAN : Launch(id, useBroker)
    \/ \E id \in ResourceIDs : Scale(id)
    \/ \E id \in ResourceIDs : Release(id)
    \/ \E c \in BagToSet(gsi) : GsiStatus(c)
    \/ \E t \in BagToSet(tracers) : TracerTick(t)
    \/ Sync
    \/ \E r \in BagToSet(pending) : ApplyRelease(r)

\* runSync and the compensating releases go on as in PoolFairness; the
\* ticker of a tracer delivers every checkerTimeGap; the operator answers
\* every GetServerStatus, and it reports the service of a resource
\* terminated (running or failed) again and again
TraceFairness ==
    /\ PoolFairness
    /\ \A id \in ResourceIDs : WF_vars(TracerTick([id |-> id, dead |-> FALSE]))
    /\ \A id \in ResourceIDs, target \in ResourceIDs :
          LET c == NewCall(id, "tracer", target)
          IN  /\ WF_vars(GsiStatus(c))
              /\ SF_vars(\E a \in StatusAnswers : a.op /\ a.terminated /\ GsiAnswer(c, a))

\* the operators c.Operator may name whose manager differs: DC-Mac, and k8s
\* for every other one
Operators == {"k8s", "dc_mac"}

\* NewResourceManager for either operator
OperatorInit ==
    /\ confOperator \in Operators
    /\ running = FALSE
    /\ runPc = "recv"
    /\ loops = FALSE
    /\ registered = [id \in ResourceIDs |-> NoRes]
    /\ store = [id \in ResourceIDs |-> NoRes]
    /\ pool = NewNodeInfoPool
    /\ pending = EmptyBag
    /\ gsi = EmptyBag
    /\ tracers = EmptyBag
    /\ faults = 0
    /\ LockTableInit /\ DetailInit /\ hwu = NoHandler

OperatorSpec == OperatorInit /\ [][Next]_vars

\* a manager that stays master, from the return of its start()
TraceSpec == LockInit /\ [][TraceNext]_vars /\ TraceFairness

(***************************************************************************)
(* Properties                                                              *)
(***************************************************************************)
\* every answer the Pool, the operator, the store and the broker set can give
AnyAnswers ==
    [apply : ResourceIDs \cup {""}, grant : -1 .. MaxGrant, key : BlockKeys,
     op : BOOLEAN, put : BOOLEAN]

\* C1 Leader gating: while running = FALSE each of Init, Launch, Scale,
\* Release, GetServiceInfo and IsServicePreparing returns ManagerNotRunning
\* whatever its inputs, and leaves the map, the table, the Pool and the pending
\* releases as they are, with no operator call, no store write and no
\* goroutine started
C1_LeaderGating ==
    ~running =>
        \A id \in ResourceIDs :
            /\ \A createOk \in BOOLEAN :
                    init(Cur, id, createOk) = Fail(Cur, "ManagerNotRunning")
            /\ \A useBroker \in BOOLEAN, e \in AnyAnswers :
                    launch(Cur, id, useBroker, e) = Fail(Cur, "ManagerNotRunning")
            /\ \A e \in AnyAnswers :
                    /\ scale(Cur, id, <<e, e>>) = Fail(Cur, "ManagerNotRunning")
                    /\ release(Cur, id, <<e, e>>) = Fail(Cur, "ManagerNotRunning")
            /\ getServiceInfoName(Cur, id) = Fail(Cur, "ManagerNotRunning")
            /\ isServicePreparing(Cur, id) =
                    [val |-> FALSE, err |-> "ManagerNotRunning", s |-> Cur]

\* the manager was demoted while r1 waits in status init for its Launch and
\* b1 is deployed: every operation has something it would do if it ran
C1_Witness ==
    /\ ~running
    /\ registered["r1"].status = "init"
    /\ registered["b1"].status \in {"deploying", "running"}
    /\ store["b1"].status = registered["b1"].status
    /\ launch(Cur, "r1", FALSE, CHOOSE e \in AnyAnswers : TRUE).err = "ManagerNotRunning"

\* the status of resource id: that of its registered row.  saveResources
\* deletes a released row from the map, so a resource the map does not hold
\* is released when the table has a row for it and absent when it has none
Status(id) ==
    IF registered[id].status # "absent" THEN registered[id].status
    ELSE IF store[id].status # "absent" THEN "released"
    ELSE "absent"

\* the transitions of the resource state machine
Diagram ==
    {<<"absent", "init">>, <<"init", "deploying">>, <<"deploying", "running">>,
     <<"running", "deploying">>, <<"init", "released">>, <<"deploying", "released">>,
     <<"running", "released">>}

\* a step of the role loop (start, stop)
RoleStep == running' # running \/ runPc' # runPc

\* no operation but scale takes a running resource to deploying
OnlyScaleRedeploys ==
    \A id \in ResourceIDs :
        registered[id].status = "running" =>
            /\ \A x \in ResourceIDs, useBroker \in BOOLEAN, e \in AnyAnswers :
                    /\ launch(Cur, x, useBroker, e).reg[id].status # "deploying"
                    /\ release(Cur, x, <<e, e>>).reg[id].status # "deploying"
                    /\ init(Cur, x, e.put).reg[id].status # "deploying"
            /\ \A x \in ResourceIDs, a \in StatusAnswers :
                    getServiceInfoStatus(Cur, x, getServerRealName(Cur, x), a)
                        .reg[id].status # "deploying"

\* C2 State-machine closure: over every interleaving of Init, Launch, Scale,
\* Release, GetServiceInfo and tracer ticks, each change of a resource's
\* status is absent->init, init->deploying, deploying->running,
\* running->deploying (by scale only) or {init, deploying, running}->released;
\* no resource leaves released and none reaches deleting
C2_StateMachineClosure ==
    /\ [](\A id \in ResourceIDs :
            Status(id) \in {"absent", "init", "deploying", "running", "released"})
    /\ []OnlyScaleRedeploys
    /\ [][~RoleStep =>
            \A id \in ResourceIDs :
                Status(id)' = Status(id) \/ <<Status(id), Status(id)'>> \in Diagram]_vars

\* r1 was launched, ran, and was scaled to MaxRequest instances; b1 went
\* through its life to released
C2_Witness ==
    /\ registered["r1"].status = "deploying"
    /\ registered["r1"].requestInstance = MaxRequest
    /\ Status("b1") = "released"

\* C3 Per-resource mutual exclusion: no two goroutines are at once between a
\* completed lockResource(id) and their unlockResource(id) of the same id,
\* whatever the lock cleaner reaps
C3_MutualExclusion ==
    \A g \in Goroutines, h \in Goroutines :
        (g # h /\ gor[g].pc = "critical" /\ gor[h].pc = "critical")
            => gor[g].id # gor[h].id

\* C4 The lock cleaner never blocks an operation: a goroutine inside
\* lockResource(id) eventually holds the lock, given that every holder calls
\* unlockResource
C4_LockEventuallyAcquired ==
    \A g \in Goroutines :
        (gor[g].pc \in {"rlookup", "create", "lock"}) ~> (gor[g].pc = "critical")

\* C5 Launch, Scale, Release and GetServiceInfo hold the lock of their
\* resourceID from their first read to their last write: while a
\* getServiceInfo of id stays between its real-name read and its
\* freshDeployingStatus, no operation changes the registered row of id
C5_LockHeldThroughout ==
    [][~RoleStep =>
        \A c \in BagToSet(gsi) :
            CopiesIn(c, gsi') >= CopiesIn(c, gsi) => registered'[c.id] = registered[c.id]]_vars

RECURSIVE RequestOf(_, _, _)
\* the requestInstance of the running and deploying rows of ids bound to key
RequestOf(rows, ids, key) ==
    IF ids = {} THEN 0
    ELSE LET id == CHOOSE x \in ids : TRUE
         IN  (IF rows[id].status \in {"running", "deploying"}
                 /\ rows[id].resourceBlockKey = key
              THEN rows[id].requestInstance ELSE 0)
             + RequestOf(rows, ids \ {id}, key)

RECURSIVE PendingFor(_, _)
\* the instances the pending compensating releases will give back to key
PendingFor(pend, key) ==
    IF pend = EmptyBag THEN 0
    ELSE LET r == CHOOSE x \in BagToSet(pend) : TRUE
             rest == [x \in BagToSet(pend) \ {r} |-> pend[x]]
         IN  (IF r.key = key THEN r.instance * CopiesIn(r, pend) ELSE 0)
             + PendingFor(rest, key)

\* no getServiceInfo in flight and no compensating release pending
Quiescent == gsi = EmptyBag /\ pending = EmptyBag

StoredAsRegistered(s, id) ==
    IF s.reg[id].status # "absent"
    THEN s.st[id] = table2Resource(s.reg[id])
    ELSE s.st[id].status = "released"

\* the operation that ended in state s returned no error
Succeeded(s) == s.err = "nil" /\ s.faults <= MaxFaults

\* what C7 asks of Init, Launch, Scale and Release
SuccessfulWritesPersisted ==
    \A id \in ResourceIDs :
        /\ \A createOk \in BOOLEAN :
                Succeeded(init(Cur, id, createOk))
                    => StoredAsRegistered(init(Cur, id, createOk), id)
        /\ \A useBroker \in BOOLEAN,
              e \in Answers(LaunchKeys, MaxGrant, BrokerCandidates(Cur, id)) :
                Succeeded(launch(Cur, id, useBroker, e))
                    => StoredAsRegistered(launch(Cur, id, useBroker, e), id)
        /\ \A es \in ScaleAnswers(id) :
                Succeeded(scale(Cur, id, es)) => StoredAsRegistered(scale(Cur, id, es), id)
        /\ \A es \in ReleaseAnswers(id) :
                Succeeded(release(Cur, id, es)) => StoredAsRegistered(release(Cur, id, es), id)

\* C7 Persistence equals memory: when Init, Launch, Scale, Release or
\* GetServiceInfo returns without error, the stored row of the resourceID
\* equals the registered row on every stored field (a released resource is
\* not registered and its stored row has status released)
C7_PersistenceEqualsMemory ==
    /\ SuccessfulWritesPersisted
    /\ \A c \in BagToSet(gsi), a \in StatusAnswers :
            (c.by = "user" /\ Succeeded(getServiceInfoStatus(Cur, c.id, c.target, a)))
                => StoredAsRegistered(getServiceInfoStatus(Cur, c.id, c.target, a), c.id)

\* C8 Monotone noReady: a freshDeployingStatus call leaves requestInstance as
\* it is and never raises noReadyInstance; not terminated and with ready
\* count r it lowers noReadyInstance to requestInstance - r exactly when
\* 0 <= requestInstance - r < noReadyInstance; terminated it sets it to 0
C8_MonotoneNoReady ==
    \A id \in ResourceIDs, ready \in 0 .. MaxRequest, terminated \in BOOLEAN,
       putOk \in BOOLEAN :
        LET r == registered[id]
            after == freshDeployingStatus(Cur, id, ready, terminated, putOk).reg[id]
            currentNoReady == r.requestInstance - ready
        IN  r.status # "absent" =>
                /\ after.requestInstance = r.requestInstance
                /\ after.noReadyInstance <= r.noReadyInstance
                /\ terminated => after.noReadyInstance = 0
                /\ ~terminated =>
                        after.noReadyInstance =
                            IF 0 <= currentNoReady /\ currentNoReady < r.noReadyInstance
                            THEN currentNoReady ELSE r.noReadyInstance

\* a getServiceInfo of a resource scaled to MaxRequest instances, one of them
\* not ready yet, is about to refresh it: with every instance ready and the
\* service not terminated the refresh lowers noReadyInstance to 0
C8_Witness ==
    \E c \in BagToSet(gsi) :
        /\ registered[c.id].status = "deploying"
        /\ registered[c.id].requestInstance = MaxRequest
        /\ registered[c.id].noReadyInstance > 0
        /\ freshDeployingStatus(Cur, c.id, MaxRequest, FALSE, TRUE)
               .reg[c.id].noReadyInstance = 0
        /\ freshDeployingStatus(Cur, c.id, MaxRequest, FALSE, TRUE).pend # pending

\* C9 After every persisted transition of a resource its stored row, and its
\* registered row, has 0 <= noReadyInstance <= requestInstance
C9_NoReadyWithinRequest ==
    \A id \in ResourceIDs :
        /\ 0 <= store[id].noReadyInstance
        /\ store[id].noReadyInstance <= store[id].requestInstance
        /\ 0 <= registered[id].noReadyInstance
        /\ registered[id].noReadyInstance <= registered[id].requestInstance

\* the persisted row of a resource scaled from one instance to MaxRequest:
\* some but not all of its instances are not ready
C9_Witness ==
    \E id \in ResourceIDs :
        /\ store[id].status = "deploying"
        /\ store[id].requestInstance = MaxRequest
        /\ store[id].noReadyInstance > 0
        /\ store[id].noReadyInstance < store[id].requestInstance
        /\ registered[id] = store[id]

\* a row that was never launched
Unlaunched(r) == r.requestInstance = 0 /\ r.noReadyInstance = 0 /\ r.resourceBlockKey = ""

\* C10 Every registered and every stored resource with status init has
\* requestInstance = 0, noReadyInstance = 0 and an empty resourceBlockKey,
\* also after a failed Launch and after a GetServiceInfo on it
C10_InitIsUnlaunched ==
    \A id \in ResourceIDs :
        /\ registered[id].status = "init" => Unlaunched(registered[id])
        /\ store[id].status = "init" => Unlaunched(store[id])

\* r1, the only resource, is still in status init after its Launch reserved an
\* instance and LaunchServer failed: the reservation waits for its release
C10_Witness ==
    /\ registered["r1"].status = "init"
    /\ store["r1"].status = "init"
    /\ store["b1"].status = "absent"
    /\ faults = 1
    /\ pool["k1"].noReady > 0
    /\ PendingFor(pending, "k1") > 0

\* the rows launch, scale, release and init leave, whatever they are answered
OperationRows(x) ==
    {launch(Cur, x, useBroker, e).reg : useBroker \in BOOLEAN, e \in AnyAnswers}
        \cup {scale(Cur, x, <<e, e>>).reg : e \in AnyAnswers}
        \cup {release(Cur, x, <<e, e>>).reg : e \in AnyAnswers}
        \cup {init(Cur, x, createOk).reg : createOk \in BOOLEAN}

\* C11 Running means ready: every registered and every stored row with status
\* running has noReadyInstance = 0; and a row that is not running becomes
\* running by no launch, scale, release or init, only by the
\* freshDeployingStatus of a getServiceInfo on that resource whose service is
\* terminated, made while the row is deploying
C11_RunningHasNoNoReady ==
    /\ \A id \in ResourceIDs :
            /\ registered[id].status = "running" => registered[id].noReadyInstance = 0
            /\ store[id].status = "running" => store[id].noReadyInstance = 0
    /\ \A id \in ResourceIDs :
            registered[id].status # "running" =>
                /\ \A x \in ResourceIDs : \A rows \in OperationRows(x) :
                        rows[id].status # "running"
                /\ \A x \in ResourceIDs, a \in StatusAnswers :
                        LET s == getServiceInfoStatus(Cur, x, getServerRealName(Cur, x), a)
                        IN  (s.reg[id].status = "running" \/
                                (s.st[id].status = "running" /\ store[id].status # "running"))
                                => /\ x = id
                                   /\ a.op /\ a.terminated
                                   /\ registered[id].status = "deploying"

\* r1 runs with two instances, all ready, in the map and in the table, while
\* its tracer is still between the two steps of a getServiceInfo
C11_Witness ==
    /\ registered["r1"].status = "running"
    /\ store["r1"].status = "running"
    /\ registered["r1"].requestInstance = MaxRequest
    /\ \E c \in BagToSet(gsi) : c.id = "r1" /\ c.by = "tracer"

\* C12 No released row in the map: no entry of the registered map has status
\* released; a Release that returns nil leaves the resource out of the map and
\* its stored row released; and the rows recover() loads are init, deploying
\* or running
C12_ReleasedNotRegistered ==
    /\ \A id \in ResourceIDs : registered[id].status # "released"
    /\ \A x \in ResourceIDs, e \in AnyAnswers :
            LET s == release(Cur, x, <<e, e>>)
            IN  /\ \A id \in ResourceIDs : s.reg[id].status # "released"
                /\ s.err = "nil" => s.reg[x] = NoRes /\ s.st[x].status = "released"
    /\ \A id \in ResourceIDs :
            listResources(store)[id].status \in {"absent", "init", "deploying", "running"}

\* recover() has just loaded the map from a table that holds the released
\* row of r1 and a live row of b1
C12_Witness ==
    /\ runPc = "brokerRecover"
    /\ store["r1"].status = "released"
    /\ registered["r1"] = NoRes
    /\ registered["b1"].status \in {"deploying", "running"}

\* exactly one of brokerResourceID and resourceBlockKey of row r is set
OneBacking(r) == (r.brokerResourceID # "") # (r.resourceBlockKey # "")

\* C13 One backing: every registered and every stored row of a non-broker
\* resource (brokerName empty) in status deploying or running has exactly one
\* of brokerResourceID and resourceBlockKey non-empty; a launch that took a
\* broker resource leaves the Pool as it was and the block key empty, and a
\* launch served by the Pool sets the block key the Pool returned and leaves
\* brokerResourceID empty
C13_ExactlyOneBacking ==
    /\ \A id \in ResourceIDs :
            /\ (registered[id].brokerName = ""
                    /\ registered[id].status \in {"deploying", "running"})
                    => OneBacking(registered[id])
            /\ (store[id].brokerName = "" /\ store[id].status \in {"deploying", "running"})
                    => OneBacking(store[id])
    /\ \A x \in ResourceIDs, useBroker \in BOOLEAN, e \in AnyAnswers :
            LET s == launch(Cur, x, useBroker, e)
            IN  (s.err = "nil" /\ registered[x].brokerName = "") =>
                    IF s.reg[x].brokerResourceID # ""
                    THEN /\ s.pool = pool
                         /\ s.pend = pending
                         /\ s.reg[x].resourceBlockKey = ""
                    ELSE /\ s.reg[x].resourceBlockKey = e.key
                         /\ s.pool = ReserveInstances(pool, e.key, e.grant)

\* r1 runs on the broker resource b1, which itself runs on block k1 of the Pool
C13_Witness ==
    /\ registered["r1"].status = "running"
    /\ registered["r1"].brokerResourceID = "b1"
    /\ registered["r1"].resourceBlockKey = ""
    /\ registered["b1"].status = "running"
    /\ registered["b1"].resourceBlockKey = "k1"
    /\ registered["b1"].brokerResourceID = ""

\* the releases of instance instances of block key waiting in pend, and those
\* of them that have seen a snapshot
Waiting(pend, key, instance) ==
    CopiesIn([key |-> key, instance |-> instance, armed |-> FALSE], pend)
        + CopiesIn([key |-> key, instance |-> instance, armed |-> TRUE], pend)

Gated(pend, key, instance) ==
    CopiesIn([key |-> key, instance |-> instance, armed |-> TRUE], pend)

\* C14 Snapshot-gated release: a scheduled release of n instances of block key
\* is applied to the Pool (noReady -= n, free += n) only after it has seen a
\* snapshot, it sees one only in a step that is an UpdateResources, and it is
\* scheduled not having seen one; no other step takes a release out of the
\* waiting ones
C14_SnapshotGatedRelease ==
    [][\A key \in BlockKeys, n \in 1 .. MaxRequest + 1 :
          /\ Waiting(pending', key, n) < Waiting(pending, key, n) =>
                /\ Gated(pending, key, n) > 0
                /\ Gated(pending', key, n) = Gated(pending, key, n) - 1
                /\ Waiting(pending', key, n) = Waiting(pending, key, n) - 1
                /\ pool' = ReleaseNoReadyInstance(pool, key, n)
          /\ Gated(pending', key, n) > Gated(pending, key, n) =>
                /\ Waiting(pending', key, n) = Waiting(pending, key, n)
                /\ pool' = UpdateResources(pool)]_vars

\* a release of one instance of k1 has seen a snapshot and is about to be
\* applied to a block that still carries the reservation
C14_Witness ==
    /\ Gated(pending, "k1", 1) = 1
    /\ pool["k1"].noReady >= 1
    /\ pool["k1"].total = Capacity

\* the answers under which a launch is served by the Pool: no broker resource
\* applied, a grant of the block's free instances
PoolAnswers(useBroker) ==
    {e \in AnyAnswers :
        /\ useBroker => e.apply = ""
        /\ e.key \in LaunchKeys
        /\ e.grant \in Grants(pool[e.key].free)}

\* C15 Successful Pool-backed launch: for a resource in status init, when the
\* Pool grants g instances of block key and LaunchServer and the store
\* succeed, Launch returns nil, the operator was asked once, for LaunchServer
\* of that resource with g instances, the stored and the registered row have
\* requestInstance = g, noReadyInstance = g, status deploying and
\* resourceBlockKey = key, free of the block is g less and noReady g more,
\* and one tracer was started
C15_PoolLaunchSucceeds ==
    \A x \in ResourceIDs, useBroker \in BOOLEAN :
        (running /\ registered[x].status = "init") =>
            \A e \in PoolAnswers(useBroker) :
                (e.op /\ e.put) =>
                    LET s == launch(Cur, x, useBroker, e)
                        g == e.grant
                    IN  /\ s.err = "nil"
                        /\ s.calls = <<[f |-> "LaunchServer", name |-> x, instance |-> g]>>
                        /\ s.st[x] = [registered[x] EXCEPT !.requestInstance = g,
                                                            !.noReadyInstance = g,
                                                            !.status = "deploying",
                                                            !.resourceBlockKey = e.key]
                        /\ s.reg[x] = s.st[x]
                        /\ s.pool[e.key].free = pool[e.key].free - g
                        /\ s.pool[e.key].noReady = pool[e.key].noReady + g
                        /\ s.pool[e.key].total = pool[e.key].total
                        /\ s.spawn = <<x>>

\* r1 was launched on one instance of k1: the row is deploying in the map and
\* in the table, the block has given its only free instance, the tracer waits
C15_Witness ==
    /\ registered["r1"].status = "deploying"
    /\ registered["r1"].requestInstance = 1
    /\ registered["r1"].noReadyInstance = 1
    /\ registered["r1"].resourceBlockKey = "k1"
    /\ store["r1"] = registered["r1"]
    /\ pool["k1"] = [total |-> Capacity, free |-> Capacity - 1, noReady |-> 1]
    /\ \E tr \in BagToSet(tracers) : tr.id = "r1"

\* the releases of instance instances of block key in pend that wait for a
\* snapshot
Unseen(pend, key, instance) == Waiting(pend, key, instance) - Gated(pend, key, instance)

\* what a launch served by the Pool leaves when LaunchServer fails
LaunchFailureUndone(x, useBroker, e) ==
    LET s == launch(Cur, x, useBroker, e)
        g == e.grant
        after == ReleaseNoReadyInstance(UpdateResources(s.pool), e.key, g)
    IN  /\ s.err = "OperatorError"
        /\ s.calls = <<[f |-> "LaunchServer", name |-> x, instance |-> g]>>
        /\ s.reg = registered
        /\ s.st = store
        /\ s.writes = <<>>
        /\ s.spawn = <<>>
        /\ s.pool = ReserveInstances(pool, e.key, g)
        /\ s.pend = IF g > 0
                    THEN pending (+) SetToBag({[key |-> e.key, instance |-> g,
                                               armed |-> FALSE]})
                    ELSE pending
        /\ after = UpdateResources(pool)
        /\ UpdateResources(pool) = pool => after[e.key].free = pool[e.key].free

\* C16 Operator failure on launch: when LaunchServer fails, Launch returns the
\* error, the registered and the stored rows are all as before (the resource
\* still init), nothing is written and no tracer is started; the Pool carries
\* the reservation and one release of exactly that block and count is
\* scheduled, whose application after the next snapshot leaves the Pool as the
\* snapshot alone would have, free at its value before the call when the Pool
\* was in step with the last snapshot; and while
\* the sync loop runs every release that waits for a snapshot comes to see one
C16_LaunchFailureCompensated ==
    /\ [](\A x \in ResourceIDs, useBroker \in BOOLEAN :
            (running /\ registered[x].status = "init") =>
                \A e \in PoolAnswers(useBroker) : ~e.op => LaunchFailureUndone(x, useBroker, e))
    /\ \A key \in BlockKeys, n \in 1 .. MaxRequest :
            (Unseen(pending, key, n) > 0) ~> (Unseen(pending, key, n) = 0 \/ ~loops)

\* LaunchServer has failed for r1: the row is init in the map and in the
\* table, no tracer runs, the release of the one reserved instance waits for a
\* snapshot and the block still carries the reservation
C16_Witness ==
    /\ registered["r1"] = NewResource("r1")
    /\ store["r1"] = NewResource("r1")
    /\ registered["b1"] = NoRes
    /\ faults = 1
    /\ tracers = EmptyBag
    /\ Unseen(pending, "k1", 1) = 1
    /\ pool["k1"] = [total |-> Capacity, free |-> Capacity - 1, noReady |-> 1]

\* C17 Successful scale: for a running resource with no broker resource
\* behind it, when the Pool grants delta instances of block key and ScaleServer
\* and the store succeed, Scale returns nil, the operator was asked once, for
\* ScaleServer of that resource with requestInstance + delta, and afterwards
\* requestInstance is delta more, the status is deploying in the map and in
\* the table, one tracer was started, the block carries the reservation, and
\* noReadyInstance = delta and resourceBlockKey = key when delta > 0, both as
\* before when delta = 0
C17_ScaleSucceeds ==
    \A x \in ResourceIDs :
        (running /\ registered[x].status = "running" /\ registered[x].brokerResourceID = "")
            => \A e \in AnyAnswers :
                (e.key \in ScaleKeys /\ e.grant \in Grants(pool[e.key].free) /\ e.op /\ e.put)
                    => LET s == scale(Cur, x, <<e, NoAnswer>>)
                           r == registered[x]
                           delta == e.grant
                       IN  /\ s.err = "nil"
                           /\ s.calls = <<[f |-> "ScaleServer", name |-> x,
                                           instance |-> r.requestInstance + delta]>>
                           /\ s.reg[x] =
                                [r EXCEPT !.requestInstance = @ + delta,
                                          !.status = "deploying",
                                          !.noReadyInstance = IF delta > 0 THEN delta ELSE @,
                                          !.resourceBlockKey = IF delta > 0 THEN e.key ELSE @]
                           /\ s.st[x] = s.reg[x]
                           /\ s.pool = ReserveInstances(pool, e.key, delta)
                           /\ s.spawn = <<x>>

\* r1 ran with one instance and was scaled by one: it is deploying with two
\* requested, one of them not ready, in the map and in the table
C17_Witness ==
    /\ registered["r1"].status = "deploying"
    /\ registered["r1"].requestInstance = 2
    /\ registered["r1"].noReadyInstance = 1
    /\ registered["r1"].brokerResourceID = ""
    /\ store["r1"] = registered["r1"]
    /\ pool["k1"].noReady = 1

\* C18 Release of a broker-backed resource: for a registered resource x with
\* brokerResourceID = b, release(x) first releases b; ReleaseServer is never
\* called for x; the row of x changes only after the release of b returned
\* nil, having called ReleaseServer for b and written b before x; and when the
\* release of b fails, release(x) returns that error and x stays registered
\* with its row as it was, in the map and in the table
C18_BrokerReleasedFirst ==
    \A x \in ResourceIDs :
        (running /\ registered[x].brokerResourceID # "") =>
            \A e \in AnyAnswers, eb \in AnyAnswers :
                LET b == registered[x].brokerResourceID
                    s == release(Cur, x, <<e, eb>>)
                    sb == release(Cur, b, <<eb, NoAnswer>>)
                IN  /\ \A i \in 1 .. Len(s.calls) :
                            s.calls[i].f = "ReleaseServer" => s.calls[i].name = b
                    /\ sb.err = "nil" =>
                            /\ s.calls = <<[f |-> "ReleaseServer", name |-> b, instance |-> 0]>>
                            /\ s.writes = <<b, x>>
                            /\ s.reg[b] = NoRes /\ s.st[b].status = "released"
                            /\ s.reg[x] = NoRes
                            /\ s.err = "nil" => s.st[x].status = "released"
                    /\ sb.err # "nil" =>
                            /\ s.err = sb.err
                            /\ s.reg[x] = registered[x]
                            /\ s.st[x] = store[x]
                            /\ x \notin {s.writes[i] : i \in 1 .. Len(s.writes)}

\* r1, which ran on the broker resource b1, is released, and so is b1
C18_Witness ==
    /\ store["r1"].status = "released"
    /\ store["r1"].brokerResourceID = "b1"
    /\ store["b1"].status = "released"
    /\ registered["r1"] = NoRes
    /\ registered["b1"] = NoRes

\* C19 Release of a released resource: while the manager runs, a release of a
\* resource whose stored row is released returns ResourceAlreadyReleased,
\* having called neither the operator nor the store
C19_ReleaseOfReleased ==
    \A x \in ResourceIDs :
        (running /\ store[x].status = "released") =>
            \A e \in AnyAnswers :
                LET s == release(Cur, x, <<e, e>>)
                IN  /\ s.err = "ResourceAlreadyReleased"
                    /\ s.calls = <<>>
                    /\ s.writes = <<>>

\* the operation that ended in s returned e and did nothing: map, table, Pool
\* and pending releases as they are, no operator call, no store write, no
\* goroutine started
Rejected(s, e) ==
    /\ s.err = e
    /\ s.reg = registered
    /\ s.st = store
    /\ s.pool = pool
    /\ s.pend = pending
    /\ s.calls = <<>>
    /\ s.writes = <<>>
    /\ s.spawn = <<>>

\* C20 Precondition rejection is side-effect free: while the manager runs,
\* Launch of a registered resource that is not init returns
\* ApplicationAlreadyLaunched, Scale of a registered resource that is not
\* running returns ResourceNotRunning, and Launch, Scale, Release and
\* GetServiceInfo of a resource the map does not hold return ResourceNoExist,
\* each without a Pool reservation, an operator call, a store write or a change
\* of the map, whatever the Pool, the operator and the store would answer
C20_RejectionHasNoEffect ==
    running =>
        \A x \in ResourceIDs, useBroker \in BOOLEAN, e \in AnyAnswers :
            /\ registered[x].status \in {"deploying", "running"} =>
                    Rejected(launch(Cur, x, useBroker, e), "ApplicationAlreadyLaunched")
            /\ registered[x].status \in {"init", "deploying"} =>
                    Rejected(scale(Cur, x, <<e, e>>), "ResourceNotRunning")
            /\ registered[x].status = "absent" =>
                    /\ Rejected(launch(Cur, x, useBroker, e), "ResourceNoExist")
                    /\ Rejected(scale(Cur, x, <<e, e>>), "ResourceNoExist")
                    /\ Rejected(release(Cur, x, <<e, e>>), "ResourceNoExist")
                    /\ Rejected(getServiceInfoName(Cur, x), "ResourceNoExist")

\* the manager runs, r1 is deploying, b1 is unknown to the map and the table,
\* and the block has a free instance a launch or a scale could take
C20_Witness ==
    /\ running
    /\ registered["r1"].status = "deploying"
    /\ registered["b1"] = NoRes
    /\ store["b1"] = NoRes
    /\ pool["k1"].free > 0

\* C21 Init: while the manager runs, Init of a resourceID the map holds
\* returns ResourceAlreadyInit and changes nothing; Init of any other
\* resourceID writes the init row to the table and, when that succeeded,
\* registers the same row in the map; when the table refuses or fails, Init
\* returns the error and the map is as before; and an Init of the same
\* resourceID that follows a successful one returns ResourceAlreadyInit, so
\* that the resourceID is registered once
C21_InitOnce ==
    running =>
        \A x \in ResourceIDs, createOk \in BOOLEAN :
            LET s == init(Cur, x, createOk)
            IN  /\ registered[x].status # "absent" => Rejected(s, "ResourceAlreadyInit")
                /\ registered[x].status = "absent" =>
                        /\ s.writes = <<x>>
                        /\ s.calls = <<>> /\ s.spawn = <<>>
                        /\ s.pool = pool /\ s.pend = pending
                        /\ \A y \in ResourceIDs \ {x} :
                                s.reg[y] = registered[y] /\ s.st[y] = store[y]
                        /\ s.err = "nil" =>
                                /\ s.st[x] = NewResource(x)
                                /\ s.reg[x] = NewResource(x)
                                /\ \A again \in BOOLEAN :
                                        LET s2 == init([s EXCEPT !.writes = <<>>], x, again)
                                        IN  /\ s2.err = "ResourceAlreadyInit"
                                            /\ s2.reg = s.reg /\ s2.st = s.st
                                            /\ s2.writes = <<>>
                        /\ s.err # "nil" => s.reg = registered /\ s.st = store

\* both resources were registered by Init, each once, and one call of the
\* store or the operator has failed on the way
C21_Witness ==
    /\ running
    /\ registered["r1"] = NewResource("r1")
    /\ store["r1"] = NewResource("r1")
    /\ registered["b1"] = NewResource("b1")
    /\ store["b1"] = NewResource("b1")
    /\ faults = 1

\* C22 IsServicePreparing: while the manager runs the answer is, without
\* error, true when the map holds the resource in status init or deploying
\* and false otherwise, so false for a running resource, for a resourceID
\* that was never initialised and for a released one; the call changes
\* neither map, table, Pool nor pending releases and calls neither the
\* operator nor the store
C22_PreparingIsInitOrDeploying ==
    running =>
        \A x \in ResourceIDs :
            LET p == isServicePreparing(Cur, x)
            IN  /\ p.err = "nil"
                /\ p.val <=> Status(x) \in {"init", "deploying"}
                /\ p.s = Cur

\* r1 is deploying and b1 was released: the answers are true and false
C22_Witness ==
    /\ running
    /\ registered["r1"].status = "deploying"
    /\ Status("b1") = "released"
    /\ isServicePreparing(Cur, "r1").val
    /\ ~isServicePreparing(Cur, "b1").val

\* C28 Published details keep being refreshed: while the loops of a master
\* term live, published AppDetails that differ from the registered map are
\* followed by AppDetails that list the map as it is, and published
\* ResourceDetails that differ from the Pool by ResourceDetails that show the
\* Pool as it is
C28_DetailsRefreshed ==
    /\ (loops /\ details.app # AppDetails(registered))
            ~> (~loops \/ details.app = AppDetails(registered))
    /\ (loops /\ details.rsc # pool) ~> (~loops \/ details.rsc = pool)

\* what lower-casing and the replacement of '_' make of one character
NormChar(c) == IF c = "A" THEN "a" ELSE IF c = "_" THEN "-" ELSE c

\* C29 Resource-id normalisation, as the spec states it: the handler's
\* rewriting applied to an id it has rewritten yields the same id
C29_RewriteIdempotent ==
    hwu.n = 2 => hwu.out = resourceID(hwu.user, hwu.id)

\* C29 Resource-id normalisation, amended: the id the handler of user U uses
\* for the id I is U, a '-' and I, character by character in lower case and
\* with '-' for '_'; the rewriting applied to that id puts the rewritten U
\* and a '-' in front of it once more, so the result is longer by the length
\* of U plus one and is never the same id; what re-application leaves as it
\* is are the characters: the rewritten id contains no upper-case letter
\* and no '_'
C29_RewritePrependsUser ==
    LET u == Len(hwu.user)
        first == resourceID(hwu.user, hwu.id)
    IN  /\ hwu.n = 1 =>
            /\ hwu.out = first
            /\ Len(hwu.out) = u + 1 + Len(hwu.id)
            /\ \A i \in 1 .. u : hwu.out[i] = NormChar(hwu.user[i])
            /\ hwu.out[u + 1] = "-"
            /\ \A i \in 1 .. Len(hwu.id) : hwu.out[u + 1 + i] = NormChar(hwu.id[i])
        /\ hwu.n = 2 =>
            /\ Len(hwu.out) = u + 1 + Len(first)
            /\ \A i \in 1 .. u : hwu.out[i] = NormChar(hwu.user[i])
            /\ hwu.out[u + 1] = "-"
            /\ SubSeq(hwu.out, u + 2, Len(hwu.out)) = first
            /\ hwu.out # first
            /\ \A i \in 1 .. Len(hwu.out) : hwu.out[i] \notin {"A", "_"}

\* the handler of user A_ has rewritten the id _A to a---a and that id again
\* to a--a---a
C29_Witness ==
    /\ hwu.n = 2
    /\ hwu.user = <<"A", "_">>
    /\ hwu.id = <<"_", "A">>
    /\ hwu.out = <<"a", "-", "-", "a", "-", "-", "-", "a">>

\* C23 Role redelivery is a no-op: a step of rm.Run on a Master token
\* received while the manager runs, on a Slave or Unknown token received
\* while it does not run, or on any other token, changes nothing: not the
\* running flag, the map, the Pool, the loops, the tracers or the timers
C23_RedeliveryIsNoOp ==
    [][\A token \in Tokens :
          Run(token) =>
              /\ token = "Master" /\ running => UNCHANGED vars
              /\ token \in {"Slave", "Unknown"} /\ ~running => UNCHANGED vars
              /\ token = "Other" => UNCHANGED vars]_vars

\* the manager runs, waits for a token, and its map is not what recover()
\* would load from the table: a resource is deploying in the map and init in
\* the table
C23_Witness ==
    /\ running
    /\ runPc = "recv"
    /\ loops
    /\ registered["r1"].status = "deploying"
    /\ store["r1"].status = "init"
    /\ registered # listResources(store)

\* C24 brokerSet.Recover() before any user operation: while start() has not
\* come back from brokerSet.Recover(), an Init, a getServiceInfo and an
\* IsServicePreparing do not pass the running check
C24_BrokersRecoveredFirst ==
    runPc = "brokerRecover" =>
        \A x \in ResourceIDs :
            /\ \A createOk \in BOOLEAN : init(Cur, x, createOk).err = "ManagerNotRunning"
            /\ getServiceInfoName(Cur, x).err = "ManagerNotRunning"
            /\ isServicePreparing(Cur, x).err = "ManagerNotRunning"

\* C26 Recovery on promotion: the step of start() that recovers and sets
\* running leaves in the map exactly the rows of the table whose status is
\* init, deploying or running, as the table has them, and a Pool without
\* totals in which noReady of every block key is the sum of noReadyInstance
\* of the loaded rows bound to the key; and the step in which start() goes
\* on to its goroutines starts a live tracer for every resource that is
\* deploying in the map
C26_RecoveredOnPromotion ==
    [][/\ StartRecover /\ running' =>
            /\ \A id \in ResourceIDs :
                    registered'[id] =
                        IF store[id].status \in {"init", "deploying", "running"}
                        THEN store[id] ELSE NoRes
            /\ \A key \in BlockKeys :
                    /\ pool'[key].noReady = NoReadyOf(registered', ResourceIDs, key)
                    /\ pool'[key].total = 0 /\ pool'[key].free = 0
       /\ StartBroker /\ loops' =>
            \A id \in ResourceIDs :
                LET t == [id |-> id, dead |-> FALSE]
                IN  CopiesIn(t, tracers') =
                        CopiesIn(t, tracers)
                        + (IF registered[id].status = "deploying" THEN 1 ELSE 0)]_vars

\* a second master term has recovered r1 as deploying with one instance not
\* ready: the new Pool, which has seen no snapshot, holds that instance as
\* noReady, and the tracer of r1 is alive
C26_Witness ==
    /\ running /\ loops
    /\ registered["r1"].status = "deploying"
    /\ registered["r1"].noReadyInstance = 1
    /\ registered["r1"] = store["r1"]
    /\ pool[registered["r1"].resourceBlockKey] = [total |-> 0, free |-> 0, noReady |-> 1]
    /\ CopiesIn([id |-> "r1", dead |-> FALSE], tracers) = 1

\* C27 Tracer progress: while the manager stays master, its start() having
\* started the loops, a resource that is deploying in the map is later
\* running or no longer registered
C27_DeployingEnds ==
    \A id \in ResourceIDs :
        (loops /\ registered[id].status = "deploying")
            ~> (~loops \/ registered[id].status # "deploying")

\* C25 Demotion cancels the background loops: a trace goroutine of a master
\* term that stop() has ended does not go on as a live tracer; when its
\* getServiceInfo returns, the tracer of a cancelled scope does not wait in
\* its select with a context that is not cancelled
C25_CancelledTracerExits ==
    [][\A c \in BagToSet(gsi) :
          c.by = "cancelled" /\ GsiStatus(c) =>
              CopiesIn([id |-> c.id, dead |-> FALSE], tracers')
                  <= CopiesIn([id |-> c.id, dead |-> FALSE], tracers)]_vars

\* C30 DC-Mac: for a resource in status init and a Launch with useBroker for
\* which no broker resource applies, on the DC-Mac operator Launch returns
\* BrokerNotEnoughResources, the Pool, the map, the table and the pending
\* releases are unchanged (the resource is still init), and neither the
\* operator nor the store is called; on another operator the same Launch
\* reserves in the Pool what the filter grants and, granted, calls
\* LaunchServer for it
C30_MacNeedsBroker ==
    \A x \in ResourceIDs :
        (running /\ registered[x].status = "init") =>
            \A e \in PoolAnswers(TRUE) :
                LET s == launch(Cur, x, TRUE, e)
                IN  /\ confOperator = "dc_mac" =>
                        /\ Rejected(s, "BrokerNotEnoughResources")
                        /\ s.reg[x].status = "init"
                    /\ confOperator # "dc_mac" =>
                        /\ s.err # "BrokerNotEnoughResources"
                        /\ s.pool = ReserveInstances(pool, e.key, e.grant)
                        /\ s.calls = <<[f |-> "LaunchServer", name |-> x,
                                        instance |-> e.grant]>>

\* on DC-Mac r1 is init while the block k1 has a free instance that a Launch
\* on another operator would reserve
C30_Witness ==
    /\ confOperator = "dc_mac"
    /\ running
    /\ registered["r1"].status = "init"
    /\ pool["k1"].free = 1
    /\ BrokerCandidates(Cur, "r1") = {}

\* C31 Persistence failure is state-preserving: when a Launch of an init
\* resource is served by the Pool, LaunchServer succeeds and the save of the
\* row fails, Launch returns the error and the registered row is as before
\* the call
C31_FailedSaveKeepsRow ==
    \A x \in ResourceIDs, useBroker \in BOOLEAN :
        (running /\ registered[x].status = "init") =>
            \A e \in PoolAnswers(useBroker) :
                (e.op /\ ~e.put) =>
                    LET s == launch(Cur, x, useBroker, e)
                    IN  /\ s.err # "nil"
                        /\ s.reg[x] = registered[x]

\* C32 Compensating releases stay with their Pool: as long as neither the
\* store nor the operator has failed, noReady of every block key is at least
\* the sum of noReadyInstance of the registered resources bound to the key,
\* and never below 0
C32_NoReadyCoversRegistered ==
    faults = 0 =>
        \A key \in BlockKeys :
            /\ pool[key].noReady >= NoReadyOf(registered, ResourceIDs, key)
            /\ pool[key].noReady >= 0


\* C33 Running implies spawned: once start() has returned with running true,
\* the sync loop and the other background goroutines of the term are running
C33_RunningHasLoops ==
    (running /\ runPc = "recv") => loops


\* C34 User isolation of resource ids: the id the handler of one user rewrites
\* to is never the id the handler of a different user rewrites to, whatever
\* ids the two callers supply
C34_UsersNeverShareID ==
    hwu.n = 1 =>
        \A user2 \in Strings(MaxLen), id2 \in Strings(MaxLen) :
            user2 # hwu.user => resourceID(user2, id2) # hwu.out

=============================================================================
